---- MODULE Spec2Model ----
(***************************************************************************)
(* A model of asteroids.py: the game objects (GameObject, Rock, Bullet,    *)
(* SpaceShip), the collision tests, the rock spawners, the score policy,   *)
(* game_loop, the high score file and main.                                *)
(*                                                                         *)
(* Numbers.  pygame's Vector2 holds two floats.  Here every Vector2        *)
(* component is an integer counting 1/SCALE of a game unit (fixed point),  *)
(* so the vector (1, 0) is [x |-> SCALE, y |-> 0].  Radii, ages, scores,   *)
(* angles (degrees) and counts are the plain integers of the code.         *)
(* Sines and cosines come from a table for the multiples of 10 degrees,    *)
(* which are the only angles the model draws (ROTATE_ANGLE = 10).          *)
(***************************************************************************)
EXTENDS Integers, Sequences, FiniteSets, TLC

VARIABLES
    pc,             \* where main/game_loop stands
    ship,           \* game_loop's ship (a SpaceShip)
    bullets,        \* game_loop's list of alive bullets
    rocks,          \* game_loop's list of alive rocks
    score,          \* game_loop's score
    high_score,     \* main's high_score
    high_score_file,\* the file asteroids_high_score.txt on the disk
    alive_bullets,  \* game_loop's alive_bullets of the current frame
    spawned_rocks,  \* game_loop's spawned_rocks of the current frame
    idx,            \* index of the next element of the running for loop
    key_pressed,    \* the keys held when the frame sampled the keyboard
    frame,          \* number of frames begun since main started
    round,          \* number of game_loop calls made by main
    rand,           \* what the random module may return in this run
    mark,           \* what the current frame saw and did (history); in the
                    \* specifications of single functions, what the last
                    \* call was given or returned
    obj,            \* a GameObject or Bullet on its own (SpecMove,
                    \* SpecBullet)
    calls           \* number of calls made (specifications of single
                    \* functions)

vars == <<pc, ship, bullets, rocks, score, high_score, high_score_file,
          alive_bullets, spawned_rocks, idx, key_pressed, frame, round,
          rand, mark, obj, calls>>

(***************************************************************************)
(* Program constants (asteroids.py lines 61-118).                          *)
(***************************************************************************)
MAX_X == 800
MAX_Y == 600
MAX_SHIP_SPEED == 10
BULLET_SPEED == 15
BULLET_LENGTH == 10
MAX_BULLET_AGE == 15
MIN_ROCK_RADIUS == 20
MAX_ROCK_RADIUS == 80
ROCK_RADIUS_SIZE_STEP == 10
MIN_ROCK_SPEED == 1
MAX_ROCK_SPEED == 4
MIN_NUM_ROCKS == 5
MAX_BULLETS == 2
MIN_SPAWN_EXPLODE_ROCKS == 2
MAX_SPAWN_EXPLODE_ROCKS == 3
ROTATE_ANGLE == 10
\* game_loop builds the ship with speed=1, size_major=20, size_minor=10.
SHIP_SPEED == 1
SHIP_SIZE_MAJOR == 20
SHIP_SIZE_MINOR == 10

(***************************************************************************)
(* Fixed point.                                                            *)
(***************************************************************************)
\* Vector2 components count 1/SCALE of a game unit.
SCALE == 100

Abs(n) == IF n < 0 THEN -n ELSE n

\* n / d rounded to the nearest integer (d > 0).
RoundDiv(n, d) == (2 * n + d) \div (2 * d)

RECURSIVE SqrtSearch(_, _, _)
\* The largest r in lo..hi with r * r <= n (lo * lo <= n < (hi + 1)^2).
SqrtSearch(n, lo, hi) ==
    IF lo >= hi THEN lo
    ELSE LET mid == (lo + hi + 1) \div 2
         IN  IF mid * mid <= n THEN SqrtSearch(n, mid, hi)
             ELSE SqrtSearch(n, lo, mid - 1)

\* The square root of n, rounded to the nearest integer (0 <= n < 2^30).
Sqrt(n) ==
    LET r == SqrtSearch(n, 0, 32767)
    IN  IF n - r * r > r THEN r + 1 ELSE r

\* cos of 0, 10, ..., 90 degrees, times 10000.
CosTab == <<10000, 9848, 9397, 8660, 7660, 6428, 5000, 3420, 1736, 0>>
TRIG == CosTab[1]

\* TRIG * cos(a degrees), a a multiple of 10.
Cos(a) ==
    LET m == a % 360
    IN  IF m <= 90 THEN CosTab[(m \div 10) + 1]
        ELSE IF m <= 180 THEN -CosTab[((180 - m) \div 10) + 1]
        ELSE IF m <= 270 THEN -CosTab[((m - 180) \div 10) + 1]
        ELSE CosTab[((360 - m) \div 10) + 1]

Sin(a) == Cos(a - 90)

(***************************************************************************)
(* pygame.math.Vector2, as asteroids.py uses it.                           *)
(***************************************************************************)
\* Vector2(x, y) for whole game units x, y.
Vector2(x, y) == [x |-> x * SCALE, y |-> y * SCALE]

\* v + w
VecAdd(v, w) == [x |-> v.x + w.x, y |-> v.y + w.y]

\* v * k for an integer k
VecMul(v, k) == [x |-> v.x * k, y |-> v.y * k]

\* v.rotate(angle): counter-clockwise by angle degrees in pygame's axes.
rotate(v, angle) ==
    [x |-> RoundDiv(v.x * Cos(angle) - v.y * Sin(angle), TRIG),
     y |-> RoundDiv(v.x * Sin(angle) + v.y * Cos(angle), TRIG)]

\* v.length() squared, in (1/SCALE)^2.
length_squared(v) == v.x * v.x + v.y * v.y

\* v.length(), in 1/SCALE.
length(v) == Sqrt(length_squared(v))

\* v.normalize() (v is not the zero vector).
normalize(v) ==
    [x |-> RoundDiv(v.x * SCALE, length(v)),
     y |-> RoundDiv(v.y * SCALE, length(v))]

(***************************************************************************)
(* class GameObject                                                        *)
(***************************************************************************)
GameObject(position, velocity) ==
    [position |-> position, velocity |-> velocity]

\* Faulty variant of GameObject.move: an object leaving on the low side re-enters at
\* the bound itself instead of bound - 1.
Wrap_OffByOne(c, max) ==
    IF c >= max * SCALE THEN 0
    ELSE IF c < 0 THEN max * SCALE
    ELSE c

\* The wrapped coordinate of GameObject.move for one axis with bound max.
Wrap(c, max) ==
    IF c >= max * SCALE THEN 0
    ELSE IF c < 0 THEN (max - 1) * SCALE
    ELSE c

\* Faulty variant of GameObject.move: an object that wraps comes to rest.
move_Stops(o) ==
    LET position == VecAdd(o.position, o.velocity)
        wrapped == [x |-> Wrap(position.x, MAX_X),
                    y |-> Wrap(position.y, MAX_Y)]
    IN  [o EXCEPT !.position = wrapped,
                  !.velocity = IF wrapped = position THEN @
                               ELSE [x |-> 0, y |-> 0]]

\* GameObject.move: o after o.move(); o is any record with position and
\* velocity.
move(o) ==
    LET position == VecAdd(o.position, o.velocity)
    IN  [o EXCEPT !.position = [x |-> Wrap(position.x, MAX_X),
                                y |-> Wrap(position.y, MAX_Y)]]

(***************************************************************************)
(* class SpaceShip                                                         *)
(***************************************************************************)
SpaceShip(position, rotation, speed, size_major, size_minor) ==
    [position |-> position,
     velocity |-> rotate(Vector2(speed, 0), rotation),
     rotation |-> rotation,
     size_major |-> size_major,
     size_minor |-> size_minor]

turn_left(s, angle) == [s EXCEPT !.rotation = s.rotation - angle]

turn_right(s, angle) == [s EXCEPT !.rotation = s.rotation + angle]

\* Faulty variant of SpaceShip.accelerate: the new velocity is never scaled.
accelerate_Unscaled(s, amount) ==
    LET accel_vector == VecMul(rotate(Vector2(1, 0), s.rotation), amount)
    IN  [s EXCEPT !.velocity = VecAdd(s.velocity, accel_vector)]

\* SpaceShip.accelerate.  `speed` is the length of the velocity before the
\* thrust is added (line 297), compared through its square.
accelerate(s, amount) ==
    LET accel_vector == VecMul(rotate(Vector2(1, 0), s.rotation), amount)
        new_velocity == VecAdd(s.velocity, accel_vector)
        speed == length(s.velocity)
        too_fast == length_squared(s.velocity)
                        > (MAX_SHIP_SPEED * SCALE) * (MAX_SHIP_SPEED * SCALE)
    IN  [s EXCEPT !.velocity =
            IF too_fast
            THEN [x |-> RoundDiv(new_velocity.x * MAX_SHIP_SPEED * SCALE, speed),
                  y |-> RoundDiv(new_velocity.y * MAX_SHIP_SPEED * SCALE, speed)]
            ELSE new_velocity]

\* SpaceShip.points: the three corners of the ship's triangle.
points(s) ==
    <<VecAdd(s.position, rotate(Vector2(s.size_major, 0), s.rotation)),
      VecAdd(s.position, rotate(Vector2(s.size_minor, 0), s.rotation + 120)),
      VecAdd(s.position, rotate(Vector2(s.size_minor, 0), s.rotation + 240))>>

(***************************************************************************)
(* class Rock, class Bullet                                                *)
(***************************************************************************)
Rock(position, velocity, radius, colour) ==
    [position |-> position, velocity |-> velocity,
     radius |-> radius, colour |-> colour]

\* Bullet.__init__: the direction is normalised, the age starts at 0.
Bullet(position, direction) ==
    LET norm_direction == normalize(direction)
    IN  [position |-> position,
         velocity |-> VecMul(norm_direction, BULLET_SPEED),
         direction |-> norm_direction,
         age |-> 0]

\* Faulty variant of Bullet.time_step: the age grows by two.
time_step_Twice(b) == [b EXCEPT !.age = b.age + 2]

time_step(b) == [b EXCEPT !.age = b.age + 1]

\* Faulty variant of Bullet.alive: a bullet of age MAX_BULLET_AGE is dead.
alive_Strict(b) == IF b.age >= MAX_BULLET_AGE THEN FALSE ELSE TRUE

\* Faulty variant of Bullet.alive: a bullet lives one frame longer.
alive_Late(b) == IF b.age > MAX_BULLET_AGE + 1 THEN FALSE ELSE TRUE

alive(b) == IF b.age > MAX_BULLET_AGE THEN FALSE ELSE TRUE

(***************************************************************************)
(* Collision tests                                                         *)
(***************************************************************************)
\* is_inside_circle: point.distance_to(center) <= radius, decided on the
\* squares.  A point further than radius along one axis is outside; the
\* test on the axes first keeps the squares small.
is_inside_circle(point, center, radius) ==
    LET dx == Abs(point.x - center.x)
        dy == Abs(point.y - center.y)
        r == radius * SCALE
    IN  /\ dx <= r
        /\ dy <= r
        /\ dx * dx + dy * dy <= r * r

\* The front end of a bullet (line 325).
end_pos(bullet) ==
    VecAdd(bullet.position, VecMul(bullet.direction, BULLET_LENGTH))

bullet_hit_rock(bullet, rock) ==
    is_inside_circle(end_pos(bullet), rock.position, rock.radius)

\* Faulty variant of ship_hit_rock: the centre of the ship is tested, not its corners.
ship_hit_rock_Centre(s, rock) ==
    is_inside_circle(s.position, rock.position, rock.radius)

ship_hit_rock(s, rock) ==
    \E p \in 1..3 : is_inside_circle(points(s)[p], rock.position, rock.radius)

(***************************************************************************)
(* Spawning rocks.  A function that draws random numbers is the set of     *)
(* the values it can return; rand holds the values the random module can   *)
(* return in this run (see GameRandom, SpawnRandoms).                        *)
(***************************************************************************)
\* All sequences of length n over the set S.
RECURSIVE ListsOf(_, _)
ListsOf(S, n) ==
    IF n = 0 THEN {<<>>}
    ELSE {Append(l, e) : l \in ListsOf(S, n - 1), e \in S}

\* random_colour(): the colours it can return.
random_colour == rand.colours

\* Faulty variant of range(min_radius, max_radius, ROCK_RADIUS_SIZE_STEP): the
\* upper end belongs to the range.
RadiusRange_Closed(min_radius, max_radius) ==
    {r \in min_radius..max_radius :
        (r - min_radius) % ROCK_RADIUS_SIZE_STEP = 0}

\* range(min_radius, max_radius, ROCK_RADIUS_SIZE_STEP)
RadiusRange(min_radius, max_radius) ==
    {r \in min_radius..(max_radius - 1) :
        (r - min_radius) % ROCK_RADIUS_SIZE_STEP = 0}

\* Faulty variant of spawn_rock: the range of radii includes its upper end.
spawn_radii_Inclusive(min_radius, max_radius) ==
    RadiusRange(min_radius, max_radius + 1) \cap rand.radii

\* choice(range(min_radius, max_radius, ROCK_RADIUS_SIZE_STEP)): the radii
\* spawn_rock can choose.
spawn_radii(min_radius, max_radius) ==
    RadiusRange(min_radius, max_radius) \cap rand.radii

\* spawn_rock: the rocks it can return.
spawn_rock(position, min_radius, max_radius) ==
    {Rock(position,
          VecMul(rotate(Vector2(1, 0), angle), speed),
          radius, colour) :
        radius \in spawn_radii(min_radius, max_radius),
        angle \in rand.angles,
        speed \in (MIN_ROCK_SPEED..MAX_ROCK_SPEED) \cap rand.speeds,
        colour \in random_colour}

\* -MAX_ROCK_RADIUS / 2 as a Vector2 component (lines 393, 402).
OFFSCREEN == -((MAX_ROCK_RADIUS * SCALE) \div 2)

\* Faulty variant of spawn_offscreen_rocks: of an odd number of rocks the larger
\* part starts left of the screen.
spawn_offscreen_rocks_FirstExtra(num_rocks) ==
    LET side == UNION {spawn_rock([x |-> OFFSCREEN, y |-> y_pos * SCALE],
                                  MIN_ROCK_RADIUS, MAX_ROCK_RADIUS) :
                          y_pos \in (0..(MAX_Y - 1)) \cap rand.coords}
        top  == UNION {spawn_rock([x |-> x_pos * SCALE, y |-> OFFSCREEN],
                                  MIN_ROCK_RADIUS, MAX_ROCK_RADIUS) :
                          x_pos \in (0..(MAX_X - 1)) \cap rand.coords}
    IN  {a \o b : a \in ListsOf(side, num_rocks - (num_rocks \div 2)),
                  b \in ListsOf(top, num_rocks \div 2)}

\* spawn_offscreen_rocks: the lists it can return.  The first
\* num_rocks // 2 rocks start left of the screen, the others above it.
spawn_offscreen_rocks(num_rocks) ==
    LET side == UNION {spawn_rock([x |-> OFFSCREEN, y |-> y_pos * SCALE],
                                  MIN_ROCK_RADIUS, MAX_ROCK_RADIUS) :
                          y_pos \in (0..(MAX_Y - 1)) \cap rand.coords}
        top  == UNION {spawn_rock([x |-> x_pos * SCALE, y |-> OFFSCREEN],
                                  MIN_ROCK_RADIUS, MAX_ROCK_RADIUS) :
                          x_pos \in (0..(MAX_X - 1)) \cap rand.coords}
    IN  {a \o b : a \in ListsOf(side, num_rocks \div 2),
                  b \in ListsOf(top, num_rocks - (num_rocks \div 2))}

\* Faulty variant of spawn_rocks_explosion: the new rocks take the colour of the rock
\* that explodes.
spawn_rocks_explosion_Inherit(exploding_rock) ==
    UNION {ListsOf({[r EXCEPT !.colour = exploding_rock.colour] :
                       r \in spawn_rock(exploding_rock.position,
                                        MIN_ROCK_RADIUS,
                                        exploding_rock.radius)},
                   num_new_rocks) :
              num_new_rocks \in
                  MIN_SPAWN_EXPLODE_ROCKS..MAX_SPAWN_EXPLODE_ROCKS}

\* Faulty variant of spawn_rocks_explosion: the radii of the new rocks are drawn
\* below MAX_ROCK_RADIUS, not below the radius of the rock that explodes.
spawn_rocks_explosion_AnySize(exploding_rock) ==
    UNION {ListsOf(spawn_rock(exploding_rock.position, MIN_ROCK_RADIUS,
                              MAX_ROCK_RADIUS), num_new_rocks) :
              num_new_rocks \in
                  MIN_SPAWN_EXPLODE_ROCKS..MAX_SPAWN_EXPLODE_ROCKS}

\* spawn_rocks_explosion: the lists it can return.
spawn_rocks_explosion(exploding_rock) ==
    UNION {ListsOf(spawn_rock(exploding_rock.position, MIN_ROCK_RADIUS,
                              exploding_rock.radius), num_new_rocks) :
              num_new_rocks \in
                  MIN_SPAWN_EXPLODE_ROCKS..MAX_SPAWN_EXPLODE_ROCKS}

(***************************************************************************)
(* Score                                                                   *)
(***************************************************************************)
\* Faulty variant of score_hit: the radius is taken from MAX_ROCK_RADIUS, not from
\* twice that.
score_hit_Single(radius) == MAX_ROCK_RADIUS - radius

\* Faulty variant of score_hit: the radius is added, not subtracted.
score_hit_Plus(radius) == (MAX_ROCK_RADIUS * 2) + radius

score_hit(radius) == (MAX_ROCK_RADIUS * 2) - radius

(***************************************************************************)
(* The high score file.  A text is a sequence of characters (strings of    *)
(* length one); the file on the disk is a record: whether it exists,       *)
(* whether open() can read it, what opening it for writing does ("yes": the *)
(* write succeeds, "no": open() raises, "full": open() truncates the file  *)
(* and the write raises), and its text.  The characters of a text are      *)
(* ASCII characters.                                                       *)
(***************************************************************************)
NEWLINE == "\n"

\* The vertical tab, chr(11).
VTAB == ""

DIGITS == <<"0", "1", "2", "3", "4", "5", "6", "7", "8", "9">>

IsDigit(c) == \E d \in 1..10 : DIGITS[d] = c

DigitValue(c) == (CHOOSE d \in 1..10 : DIGITS[d] = c) - 1

\* The white space int() drops around a number: blank, tab, newline,
\* vertical tab, form feed and carriage return.
IsSpace(c) == c \in {" ", "\t", NEWLINE, VTAB, "\f", "\r"}

RECURSIVE lstrip(_)
\* The text without the white space that leads it.
lstrip(t) == IF t # <<>> /\ IsSpace(Head(t)) THEN lstrip(Tail(t)) ELSE t

RECURSIVE rstrip(_)
\* The text without the white space that trails it.
rstrip(t) ==
    IF t # <<>> /\ IsSpace(t[Len(t)]) THEN rstrip(SubSeq(t, 1, Len(t) - 1))
    ELSE t

\* The text without the white space around it, as int() reads it.
strip(t) == rstrip(lstrip(t))

RECURSIVE DigitsValue(_, _)
\* The number the digits of t spell, after the digits that spelt acc.
DigitsValue(t, acc) ==
    IF t = <<>> THEN acc
    ELSE DigitsValue(Tail(t), 10 * acc + DigitValue(Head(t)))

\* int(t) for a text t: white space around the number is dropped, one sign
\* may lead, and digits must follow and nothing else, but for single
\* underscores between two digits.  ok is FALSE where int raises
\* ValueError.
int(t) ==
    LET s == strip(t)
        signed == s # <<>> /\ Head(s) \in {"+", "-"}
        body == IF signed THEN Tail(s) ELSE s
        ok == /\ body # <<>>
              /\ IsDigit(body[1])
              /\ IsDigit(body[Len(body)])
              /\ \A i \in 1..Len(body) :
                     \/ IsDigit(body[i])
                     \/ body[i] = "_" /\ IsDigit(body[i - 1])
        n == IF ok THEN DigitsValue(SelectSeq(body, IsDigit), 0) ELSE 0
    IN  [ok |-> ok,
         value |-> IF signed /\ Head(s) = "-" THEN -n ELSE n]

RECURSIVE StrNat(_)
\* The decimal digits of a natural number.
StrNat(n) ==
    IF n < 10 THEN <<DIGITS[n + 1]>>
    ELSE Append(StrNat(n \div 10), DIGITS[(n % 10) + 1])

\* str(n) for an integer n
str(n) == IF n < 0 THEN <<"-">> \o StrNat(-n) ELSE StrNat(n)

RECURSIVE universal_newlines(_)
\* The text as a file opened in text mode (line 647) gives it: a carriage
\* return, with the newline after it if there is one, reads as a newline.
universal_newlines(t) ==
    IF t = <<>> THEN <<>>
    ELSE IF Head(t) = "\r"
    THEN <<NEWLINE>> \o universal_newlines(
                           IF Len(t) >= 2 /\ t[2] = NEWLINE
                           THEN Tail(Tail(t))
                           ELSE Tail(t))
    ELSE <<Head(t)>> \o universal_newlines(Tail(t))

\* next(file): the first line of a text that is not empty, with its
\* newline if it has one.
first_line(t) ==
    LET u == universal_newlines(t)
    IN  IF \E i \in 1..Len(u) : u[i] = NEWLINE
        THEN SubSeq(u, 1, CHOOSE i \in 1..Len(u) :
                              /\ u[i] = NEWLINE
                              /\ \A j \in 1..(i - 1) : u[j] # NEWLINE)
        ELSE u

\* There is no file; one can be written.
NoFile ==
    [exists |-> FALSE, readable |-> TRUE, writable |-> "yes", text |-> <<>>]

\* Faulty variant of get_high_score: what int made of the first line is
\* returned even where int raised.
get_high_score_Unguarded(file) ==
    IF ~file.exists \/ ~file.readable THEN 0
    ELSE IF file.text = <<>> THEN 0
    ELSE DigitsValue(SelectSeq(first_line(file.text), IsDigit), 0)

\* get_high_score: 0 where open(), next() or int() raises.
get_high_score(file) ==
    IF ~file.exists \/ ~file.readable THEN 0
    ELSE IF file.text = <<>> THEN 0
    ELSE LET n == int(first_line(file.text))
         IN  IF n.ok THEN n.value ELSE 0

\* save_high_score: the file after the call.
save_high_score(file, new_score) ==
    IF file.writable = "no" THEN file
    ELSE IF file.writable = "full"
    THEN [file EXCEPT !.exists = TRUE, !.text = <<>>]
    ELSE [file EXCEPT !.exists = TRUE,
                      !.text = Append(str(new_score), NEWLINE)]

(***************************************************************************)
(* Bounds of the model and the inputs it draws.                            *)
(***************************************************************************)
\* Frames begun since main started.
MaxFrames == 20
\* The held keys change only every KeyHold frames.
KeyHold == 8

\* START_X = MAX_X / 2, START_Y = MAX_Y / 2
START_X == MAX_X \div 2
START_Y == MAX_Y \div 2

\* pygame.key.get_pressed(), reduced to the four keys game_loop reads.
NoKeys == [left |-> FALSE, right |-> FALSE, up |-> FALSE, space |-> FALSE]
KeySnapshots ==
    {NoKeys,
     [NoKeys EXCEPT !.space = TRUE],
     [NoKeys EXCEPT !.up = TRUE],
     [NoKeys EXCEPT !.up = TRUE, !.space = TRUE],
     [NoKeys EXCEPT !.left = TRUE, !.space = TRUE],
     [NoKeys EXCEPT !.left = TRUE, !.up = TRUE, !.space = TRUE],
     [NoKeys EXCEPT !.right = TRUE, !.left = TRUE]}

\* What the random module returns in a run of the game: rocks of the
\* smallest and of the largest size, heading up the screen through the
\* ship's column.
GameRandom ==
    [radii |-> {20, 70}, angles |-> {270}, speeds |-> {4},
     colours |-> {<<255, 150, 100>>}, coords |-> {400}, rotations |-> {90}]

\* The locals of game_loop as it sets them up (lines 508-520).
NewShip(rotation) ==
    SpaceShip(Vector2(START_X, START_Y), rotation,
              SHIP_SPEED, SHIP_SIZE_MAJOR, SHIP_SIZE_MINOR)

\* History of a frame: the rocks, bullets, score and ship when its loop over
\* the bullets began, the hits of its bullets, and the rocks when its loop
\* over the rocks began; for each bullet of `bullets` the frame in which
\* line 551 appended it (fired), and the same for each bullet the frame has
\* put in alive_bullets (kept).
NoMark ==
    [rocks |-> <<>>, bullets |-> <<>>, score |-> 0, hits |-> <<>>,
     ship |-> NewShip(0), merged |-> <<>>, fired |-> <<>>, kept |-> <<>>]

(***************************************************************************)
(* main and game_loop.  pc:                                                *)
(*   "info"    main waits in info_screen for the return key                *)
(*   "keys"    game_loop is at the top of its while loop (line 523)        *)
(*   "spawn"   the keys are handled, the events are next (line 553)        *)
(*   "bullets" in the loop over the bullets (line 577), at bullet idx      *)
(*   "rocks"   in the loop over the rocks (line 619), at rock idx          *)
(*   "over"    game_loop has returned the score to main (line 693)         *)
(*   "exit"    terminate() was called                                      *)
(***************************************************************************)
\* Faulty variant of lines 530-541: the thrust key is handled before the turn
\* keys.
steer_ThrustFirst(s, keys) ==
    LET s1 == IF keys.up THEN accelerate(s, 1) ELSE s
        s2 == IF keys.left THEN turn_left(s1, ROTATE_ANGLE) ELSE s1
    IN  IF keys.right THEN turn_right(s2, ROTATE_ANGLE) ELSE s2

\* Lines 530-541: the ship after the turn and thrust keys.
steer(s, keys) ==
    LET s1 == IF keys.left THEN turn_left(s, ROTATE_ANGLE) ELSE s
        s2 == IF keys.right THEN turn_right(s1, ROTATE_ANGLE) ELSE s1
    IN  IF keys.up THEN accelerate(s2, 1) ELSE s2

\* Faulty variant of Line 547: the gate lets a bullet through at the cap.
may_fire_AtCap(bs) == Len(bs) <= MAX_BULLETS

\* Line 547: there are fewer than MAX_BULLETS alive.
may_fire(bs) == Len(bs) < MAX_BULLETS

\* Lines 542-551: the bullets after the space key.
fire(bs, s, keys) ==
    IF keys.space /\ may_fire(bs)
    THEN Append(bs, Bullet(s.position, rotate(Vector2(1, 0), s.rotation)))
    ELSE bs

\* Faulty variant of Line 508: the score of the round before is kept.
initial_score_Kept == score

\* Line 508: score = 0
initial_score == 0

\* main, line 693: game_loop is called; it sets up its locals.
StartRound ==
    /\ pc = "info"
    /\ frame < MaxFrames
    /\ \E rotation \in (0..359) \cap rand.rotations :
           ship' = NewShip(rotation)
    /\ score' = initial_score
    /\ bullets' = <<>>
    /\ rocks' = <<>>
    /\ alive_bullets' = <<>>
    /\ spawned_rocks' = <<>>
    /\ idx' = 1
    /\ key_pressed' = NoKeys
    /\ mark' = NoMark
    /\ round' = round + 1
    /\ pc' = "keys"
    /\ UNCHANGED <<high_score, high_score_file,
                   frame, rand, obj, calls>>

\* Line 615 has run in this call of game_loop: bullets and alive_bullets
\* name one list, until line 569 makes a new one.  Line 520 leaves rocks
\* empty; from the first frame on rocks holds a rock at line 523, since
\* line 564 fills it up to MIN_NUM_ROCKS and each of the at most MAX_BULLETS
\* bullets of a frame removes one rock at most.
one_bullets_list == rocks # <<>>

\* Lines 523-551: a frame begins; the keyboard is sampled and the keys are
\* handled.  The append of line 551 is seen through alive_bullets too where
\* it names the list of bullets.
Keys ==
    /\ pc = "keys"
    /\ frame < MaxFrames
    /\ \E keys \in KeySnapshots :
           /\ keys = key_pressed \/ frame % KeyHold = 0
           /\ key_pressed' = keys
           /\ ship' = steer(ship, keys)
           /\ bullets' = fire(bullets, steer(ship, keys), keys)
    /\ alive_bullets' = IF one_bullets_list THEN bullets' ELSE alive_bullets
    /\ frame' = frame + 1
    /\ mark' = [mark EXCEPT !.fired = IF Len(bullets') > Len(bullets)
                                      THEN Append(@, frame')
                                      ELSE @]
    /\ pc' = "spawn"
    /\ UNCHANGED <<rocks, score, high_score, high_score_file,
                   spawned_rocks,
                   idx, round, rand, obj, calls>>

\* Faulty variant of Line 564: one rock too few is asked for.
rocks_missing_Short(rs) == MIN_NUM_ROCKS - Len(rs) - 1

\* Line 564: MIN_NUM_ROCKS - len(rocks)
rocks_missing(rs) == MIN_NUM_ROCKS - Len(rs)

\* Lines 561-572: no quit event; rocks are spawned up to the minimum and
\* the lists of the frame are emptied.
Maintain ==
    /\ pc = "spawn"
    /\ IF Len(rocks) < MIN_NUM_ROCKS
       THEN \E new_rocks \in spawn_offscreen_rocks(rocks_missing(rocks)) :
                rocks' = rocks \o new_rocks
       ELSE rocks' = rocks
    /\ alive_bullets' = <<>>
    /\ spawned_rocks' = <<>>
    /\ idx' = 1
    /\ mark' = [rocks |-> rocks', bullets |-> bullets, score |-> score,
                hits |-> <<>>, ship |-> ship, merged |-> <<>>,
                fired |-> mark.fired, kept |-> <<>>]
    /\ pc' = "bullets"
    /\ UNCHANGED <<ship, bullets, score, high_score, high_score_file,
                   key_pressed, frame,
                   round, rand, obj, calls>>

RECURSIVE rock_loop_AllHits(_, _, _)
\* Faulty variant of rock_loop: `not hit` is missing from line 592, so a bullet hits
\* every rock that holds its front end.
rock_loop_AllHits(bullet, rest, st) ==
    IF rest = <<>> THEN {st}
    ELSE LET rock == Head(rest)
         IN  IF bullet_hit_rock(bullet, rock)
             THEN UNION {rock_loop_AllHits(bullet, Tail(rest),
                                   [st EXCEPT
                                       !.score = @ + score_hit(rock.radius),
                                       !.hit = TRUE,
                                       !.spawned_rocks = @ \o new_rocks]) :
                            new_rocks \in
                                IF rock.radius > MIN_ROCK_RADIUS
                                THEN spawn_rocks_explosion(rock)
                                ELSE {<<>>}}
             ELSE rock_loop_AllHits(bullet, Tail(rest),
                            [st EXCEPT !.alive_rocks = Append(@, rock)])

RECURSIVE rock_loop_Unstaged(_, _, _)
\* Faulty variant of rock_loop: the rocks of an explosion join the alive rocks at
\* once, where the bullets still to come are tested against them.
rock_loop_Unstaged(bullet, rest, st) ==
    IF rest = <<>> THEN {st}
    ELSE LET rock == Head(rest)
         IN  IF ~st.hit /\ bullet_hit_rock(bullet, rock)
             THEN UNION {rock_loop_Unstaged(bullet, Tail(rest),
                                   [st EXCEPT
                                       !.score = @ + score_hit(rock.radius),
                                       !.hit = TRUE,
                                       !.alive_rocks = @ \o new_rocks]) :
                            new_rocks \in
                                IF rock.radius > MIN_ROCK_RADIUS
                                THEN spawn_rocks_explosion(rock)
                                ELSE {<<>>}}
             ELSE rock_loop_Unstaged(bullet, Tail(rest),
                            [st EXCEPT !.alive_rocks = Append(@, rock)])

RECURSIVE rock_loop(_, _, _)
\* Lines 589-602: the loop over the rocks for one bullet, from the rocks
\* `rest` still to visit and the loop's variables `st`; the set of what the
\* variables can be when the loop ends.
rock_loop(bullet, rest, st) ==
    IF rest = <<>> THEN {st}
    ELSE LET rock == Head(rest)
         IN  IF ~st.hit /\ bullet_hit_rock(bullet, rock)
             THEN UNION {rock_loop(bullet, Tail(rest),
                                   [st EXCEPT
                                       !.score = @ + score_hit(rock.radius),
                                       !.hit = TRUE,
                                       !.spawned_rocks = @ \o new_rocks]) :
                            new_rocks \in
                                IF rock.radius > MIN_ROCK_RADIUS
                                THEN spawn_rocks_explosion(rock)
                                ELSE {<<>>}}
             ELSE rock_loop(bullet, Tail(rest),
                            [st EXCEPT !.alive_rocks = Append(@, rock)])

\* History: what a bullet's hit did, for mark.hits.  `before` and `after`
\* are the rocks before and after the bullet's loop over them, `gained` the
\* points added, `fragments` the rocks the hit staged.
Hit(bullet, st) ==
    [bullet |-> bullet,
     before |-> rocks,
     after |-> st.alive_rocks,
     gained |-> st.score - score,
     fragments |-> SubSeq(st.spawned_rocks, Len(spawned_rocks) + 1,
                          Len(st.spawned_rocks))]

\* The loop's variables as lines 585-587 set them for a bullet.
LoopStart ==
    [alive_rocks |-> <<>>, hit |-> FALSE, score |-> score,
     spawned_rocks |-> spawned_rocks]

\* Faulty variant of lines 577-610: alive() is asked before time_step(), so a
\* bullet is still moved and tested in the frame in which its age passes
\* MAX_BULLET_AGE.
BulletStep_TestsExpired ==
    /\ pc = "bullets"
    /\ idx <= Len(bullets)
    /\ LET aged == time_step(bullets[idx])
       IN  IF alive(bullets[idx])
           THEN LET bullet == move(aged)
                IN  \E st \in rock_loop(bullet, rocks, LoopStart) :
                        /\ bullets' = [bullets EXCEPT ![idx] = bullet]
                        /\ rocks' = st.alive_rocks
                        /\ score' = st.score
                        /\ spawned_rocks' = st.spawned_rocks
                        /\ alive_bullets' =
                               IF ~st.hit THEN Append(alive_bullets, bullet)
                               ELSE alive_bullets
                        /\ mark' = [mark EXCEPT
                               !.hits =
                                   IF st.hit THEN Append(@, Hit(bullet, st))
                                   ELSE @,
                               !.kept =
                                   IF ~st.hit THEN Append(@, mark.fired[idx])
                                   ELSE @]
           ELSE /\ bullets' = [bullets EXCEPT ![idx] = aged]
                /\ UNCHANGED <<rocks, score, spawned_rocks, alive_bullets,
                               mark>>
    /\ idx' = idx + 1
    /\ UNCHANGED <<pc, ship, high_score, high_score_file, key_pressed,
                   frame, round, rand, obj, calls>>

\* Lines 577-610: one turn of the loop over the bullets.
BulletStep ==
    /\ pc = "bullets"
    /\ idx <= Len(bullets)
    /\ LET aged == time_step(bullets[idx])
       IN  IF alive(aged)
           THEN LET bullet == move(aged)
                IN  \E st \in rock_loop(bullet, rocks, LoopStart) :
                        /\ bullets' = [bullets EXCEPT ![idx] = bullet]
                        /\ rocks' = st.alive_rocks
                        /\ score' = st.score
                        /\ spawned_rocks' = st.spawned_rocks
                        /\ alive_bullets' =
                               IF ~st.hit THEN Append(alive_bullets, bullet)
                               ELSE alive_bullets
                        /\ mark' = [mark EXCEPT
                               !.hits =
                                   IF st.hit THEN Append(@, Hit(bullet, st))
                                   ELSE @,
                               !.kept =
                                   IF ~st.hit THEN Append(@, mark.fired[idx])
                                   ELSE @]
           ELSE /\ bullets' = [bullets EXCEPT ![idx] = aged]
                /\ UNCHANGED <<rocks, score, spawned_rocks, alive_bullets,
                               mark>>
    /\ idx' = idx + 1
    /\ UNCHANGED <<pc, ship, high_score, high_score_file,
                   key_pressed, frame, round, rand,
                   obj, calls>>

\* Lines 612-615: the loop over the bullets is over; the spawned rocks join
\* the rocks and the surviving bullets become the bullets.
Merge ==
    /\ pc = "bullets"
    /\ idx > Len(bullets)
    /\ rocks' = rocks \o spawned_rocks
    /\ bullets' = alive_bullets
    /\ idx' = 1
    /\ mark' = [mark EXCEPT !.merged = rocks', !.fired = mark.kept]
    /\ pc' = "rocks"
    /\ UNCHANGED <<ship, score, high_score, high_score_file,
                   alive_bullets, spawned_rocks,
                   key_pressed, frame, round, rand, obj, calls>>

\* Line 613 puts the rocks of spawned_rocks themselves at the end of rocks,
\* so the move of the rock at index i of rocks (line 621) is seen through
\* spawned_rocks where the rock is one of them.
moved_in_spawned(i, rock) ==
    LET old == Len(rocks) - Len(spawned_rocks)
    IN  IF i > old THEN [spawned_rocks EXCEPT ![i - old] = rock]
        ELSE spawned_rocks

\* Faulty variant of lines 619-626: the ship still moves in the frame in which
\* a rock hits it.
RockStep_ShipMoves ==
    /\ pc = "rocks"
    /\ idx <= Len(rocks)
    /\ LET rock == move(rocks[idx])
       IN  /\ rocks' = [rocks EXCEPT ![idx] = rock]
           /\ spawned_rocks' = moved_in_spawned(idx, rock)
           /\ IF ship_hit_rock(ship, rock)
              THEN pc' = "over" /\ idx' = idx /\ ship' = move(ship)
              ELSE pc' = pc /\ idx' = idx + 1 /\ ship' = ship
    /\ UNCHANGED <<bullets, score, high_score, high_score_file,
                   alive_bullets, key_pressed, frame, round,
                   rand, mark, obj, calls>>

\* Lines 619-626: one turn of the loop over the rocks; game_loop returns
\* when the moved rock hits the ship.  A rock spawned in this frame moves
\* in spawned_rocks as well.
RockStep ==
    /\ pc = "rocks"
    /\ idx <= Len(rocks)
    /\ LET rock == move(rocks[idx])
       IN  /\ rocks' = [rocks EXCEPT ![idx] = rock]
           /\ spawned_rocks' = moved_in_spawned(idx, rock)
           /\ IF ship_hit_rock(ship, rock)
              THEN pc' = "over" /\ idx' = idx
              ELSE pc' = pc /\ idx' = idx + 1
    /\ UNCHANGED <<ship, bullets, score, high_score, high_score_file,
                   alive_bullets,
                   key_pressed, frame, round, rand, mark,
                   obj, calls>>

\* Lines 628-638: the loop over the rocks is over; the ship moves and the
\* frame ends.
ShipMove ==
    /\ pc = "rocks"
    /\ idx > Len(rocks)
    /\ ship' = move(ship)
    /\ pc' = "keys"
    /\ UNCHANGED <<bullets, rocks, score, high_score, high_score_file,
                   alive_bullets,
                   spawned_rocks, idx, key_pressed, frame, round, rand,
                   mark, obj, calls>>

\* main, lines 693-701: game_loop returned new_score; the high score is
\* updated and the game over screen is shown.
GameOver ==
    /\ pc = "over"
    /\ high_score' = IF score > high_score THEN score ELSE high_score
    /\ high_score_file' = IF score > high_score
                          THEN save_high_score(high_score_file, score)
                          ELSE high_score_file
    /\ pc' = "info"
    /\ UNCHANGED <<ship, bullets, rocks, score, alive_bullets, spawned_rocks,
                   idx, key_pressed, frame, round, rand, mark, obj, calls>>

\* terminate(): the escape key or a QUIT event, in an info screen (lines
\* 439-444) or in a frame (lines 554-559).
Terminate ==
    /\ pc \in {"info", "spawn"}
    /\ pc' = "exit"
    /\ UNCHANGED <<ship, bullets, rocks, score, high_score, high_score_file,
                   alive_bullets,
                   spawned_rocks, idx, key_pressed, frame, round, rand,
                   mark, obj, calls>>

\* main has read the high score and shows the start screen (lines 677-688).
Init ==
    /\ pc = "info"
    /\ rand = GameRandom
    /\ ship = NewShip(0)
    /\ bullets = <<>>
    /\ rocks = <<>>
    /\ score = 0
    /\ high_score = 0
    /\ high_score_file = NoFile
    /\ alive_bullets = <<>>
    /\ spawned_rocks = <<>>
    /\ idx = 1
    /\ key_pressed = NoKeys
    /\ frame = 0
    /\ round = 0
    /\ mark = NoMark
    /\ obj = GameObject(Vector2(0, 0), Vector2(0, 0))
    /\ calls = 0

Next ==
    \/ StartRound
    \/ Keys
    \/ Maintain
    \/ BulletStep
    \/ Merge
    \/ RockStep
    \/ ShipMove
    \/ GameOver
    \/ Terminate

Spec == Init /\ [][Next]_vars

(***************************************************************************)
(* SpecMove: GameObject.move on its own.  An object with a position and a  *)
(* velocity drawn from MovePoints and MoveSpeeds is moved MaxMoves times;  *)
(* mark remembers the object before the last move.                         *)
(***************************************************************************)
MaxMoves == 2

\* Coordinates (1/SCALE): off screen where rocks spawn, the edges, inside.
MovePoints(max) ==
    {OFFSCREEN, 0, SCALE \div 2, (max \div 2) * SCALE,
     (max - 1) * SCALE, (max - 1) * SCALE + (SCALE \div 2)}

\* Velocity components (1/SCALE): a bullet's, a rock's, a slow ship's.
MoveSpeeds ==
    {-(BULLET_SPEED * SCALE), -(MAX_ROCK_SPEED * SCALE), -1, 0, 1,
     SCALE \div 2, MAX_ROCK_SPEED * SCALE, BULLET_SPEED * SCALE}

InitMove ==
    /\ pc = "move"
    /\ obj \in {GameObject([x |-> px, y |-> py], [x |-> vx, y |-> vy]) :
                   px \in MovePoints(MAX_X), py \in MovePoints(MAX_Y),
                   vx \in MoveSpeeds, vy \in {-(BULLET_SPEED * SCALE), -1, 0,
                                              MAX_ROCK_SPEED * SCALE}}
    /\ calls = 0
    /\ mark = obj
    /\ rand = GameRandom
    /\ ship = NewShip(0)
    /\ bullets = <<>>
    /\ rocks = <<>>
    /\ score = 0
    /\ high_score = 0
    /\ high_score_file = NoFile
    /\ alive_bullets = <<>>
    /\ spawned_rocks = <<>>
    /\ idx = 1
    /\ key_pressed = NoKeys
    /\ frame = 0
    /\ round = 0

CallMove ==
    /\ pc = "move"
    /\ calls < MaxMoves
    /\ obj' = move(obj)
    /\ mark' = obj
    /\ calls' = calls + 1
    /\ UNCHANGED <<pc, ship, bullets, rocks, score, high_score, high_score_file,
                   alive_bullets, spawned_rocks, idx, key_pressed, frame,
                   round, rand>>

NextMove == CallMove

SpecMove == InitMove /\ [][NextMove]_vars

(***************************************************************************)
(* SpecShip: the ship's controls on their own.  The ship game_loop builds  *)
(* (speed 1, a rotation from ShipRotations) receives up to MaxCalls calls  *)
(* of turn_left(ROTATE_ANGLE), turn_right(ROTATE_ANGLE) and accelerate(1), *)
(* turning at most MaxSwing steps away from its first rotation (mark).     *)
(***************************************************************************)
MaxCalls == 13
MaxSwing == 2

ShipRotations == {0, 90, 200}

InitShip ==
    /\ pc = "control"
    /\ \E rotation \in ShipRotations :
           /\ ship = NewShip(rotation)
           /\ mark = rotation
    /\ calls = 0
    /\ rand = GameRandom
    /\ obj = GameObject(Vector2(0, 0), Vector2(0, 0))
    /\ bullets = <<>>
    /\ rocks = <<>>
    /\ score = 0
    /\ high_score = 0
    /\ high_score_file = NoFile
    /\ alive_bullets = <<>>
    /\ spawned_rocks = <<>>
    /\ idx = 1
    /\ key_pressed = NoKeys
    /\ frame = 0
    /\ round = 0

CallTurnLeft ==
    /\ pc = "control"
    /\ calls < MaxCalls
    /\ ship' = turn_left(ship, ROTATE_ANGLE)
    /\ Abs(ship'.rotation - mark) <= MaxSwing * ROTATE_ANGLE
    /\ calls' = calls + 1
    /\ UNCHANGED <<pc, bullets, rocks, score, high_score, high_score_file,
                   alive_bullets,
                   spawned_rocks, idx, key_pressed, frame, round, rand,
                   mark, obj>>

CallTurnRight ==
    /\ pc = "control"
    /\ calls < MaxCalls
    /\ ship' = turn_right(ship, ROTATE_ANGLE)
    /\ Abs(ship'.rotation - mark) <= MaxSwing * ROTATE_ANGLE
    /\ calls' = calls + 1
    /\ UNCHANGED <<pc, bullets, rocks, score, high_score, high_score_file,
                   alive_bullets,
                   spawned_rocks, idx, key_pressed, frame, round, rand,
                   mark, obj>>

CallAccelerate ==
    /\ pc = "control"
    /\ calls < MaxCalls
    /\ ship' = accelerate(ship, 1)
    /\ calls' = calls + 1
    /\ UNCHANGED <<pc, bullets, rocks, score, high_score, high_score_file,
                   alive_bullets,
                   spawned_rocks, idx, key_pressed, frame, round, rand,
                   mark, obj>>

NextShip ==
    \/ CallTurnLeft
    \/ CallTurnRight
    \/ CallAccelerate

SpecShip == InitShip /\ [][NextShip]_vars

(***************************************************************************)
(* SpecSpawn: the spawners on their own.  spawn_offscreen_rocks is called  *)
(* for up to MaxSpawn rocks; then a bullet whose front end is at the       *)
(* centre of one of the rocks goes through the loop over the rocks (lines  *)
(* 585-610), which explodes the rock it hits.  The random module is one of *)
(* SpawnRandoms: every radius, or two radii with two headings and colours, *)
(* or one radius with the coordinates at the ends of their ranges.         *)
(***************************************************************************)
MaxSpawn == 3

SpawnRandoms ==
    {[radii |-> MIN_ROCK_RADIUS..MAX_ROCK_RADIUS, angles |-> {200},
      speeds |-> {2}, colours |-> {<<255, 150, 100>>}, coords |-> {300},
      rotations |-> {90}],
     [radii |-> {20, 70}, angles |-> {0, 200},
      speeds |-> {4}, colours |-> {<<255, 150, 100>>, <<100, 50, 50>>},
      coords |-> {599}, rotations |-> {90}],
     [radii |-> {20}, angles |-> {200},
      speeds |-> {2}, colours |-> {<<255, 150, 100>>},
      coords |-> {0, MAX_Y - 1, MAX_X - 1}, rotations |-> {90}]}

InitSpawn ==
    /\ pc = "spawner"
    /\ rand \in SpawnRandoms
    /\ rocks = <<>>
    /\ spawned_rocks = <<>>
    /\ score = 0
    /\ mark = NoMark
    /\ calls = 0
    /\ ship = NewShip(0)
    /\ bullets = <<>>
    /\ high_score = 0
    /\ high_score_file = NoFile
    /\ alive_bullets = <<>>
    /\ idx = 1
    /\ key_pressed = NoKeys
    /\ frame = 0
    /\ round = 0
    /\ obj = GameObject(Vector2(0, 0), Vector2(0, 0))

CallSpawnOffscreen ==
    /\ pc = "spawner"
    /\ \E num_rocks \in 0..MaxSpawn :
           /\ \E new_rocks \in spawn_offscreen_rocks(num_rocks) :
                  /\ rocks' = new_rocks
                  /\ mark' = [mark EXCEPT !.rocks = new_rocks]
           /\ calls' = num_rocks
    /\ pc' = "shoot"
    /\ UNCHANGED <<ship, bullets, score, high_score, high_score_file,
                   alive_bullets,
                   spawned_rocks, idx, key_pressed, frame, round, rand, obj>>

\* A bullet flying along +x whose front end is at the centre of the rock.
AimedAt(rock) ==
    Bullet([x |-> rock.position.x - BULLET_LENGTH * SCALE,
            y |-> rock.position.y],
           Vector2(1, 0))

CallRockLoop ==
    /\ pc = "shoot"
    /\ \E i \in 1..Len(rocks) :
           \E st \in rock_loop(AimedAt(rocks[i]), rocks, LoopStart) :
               /\ rocks' = st.alive_rocks
               /\ score' = st.score
               /\ spawned_rocks' = st.spawned_rocks
               /\ mark' = [mark EXCEPT !.hits =
                      IF st.hit THEN Append(@, Hit(AimedAt(rocks[i]), st))
                      ELSE @]
    /\ pc' = "done"
    /\ UNCHANGED <<ship, bullets, high_score, high_score_file,
                   alive_bullets, idx,
                   key_pressed, frame, round, rand, obj, calls>>

NextSpawn ==
    \/ CallSpawnOffscreen
    \/ CallRockLoop

SpecSpawn == InitSpawn /\ [][NextSpawn]_vars

(***************************************************************************)
(* SpecScore: score_hit on its own.  It is called up to MaxScoreCalls      *)
(* times with a radius from MIN_ROCK_RADIUS to MAX_ROCK_RADIUS; score is   *)
(* what the last call returned and mark the radius it was given, with the  *)
(* radius and the result of the call before.                               *)
(***************************************************************************)
MaxScoreCalls == 2

InitScore ==
    /\ pc = "score"
    /\ calls = 0
    /\ score = 0
    /\ mark = [radius |-> MIN_ROCK_RADIUS, last_radius |-> MIN_ROCK_RADIUS,
               last_score |-> 0]
    /\ rand = GameRandom
    /\ ship = NewShip(0)
    /\ bullets = <<>>
    /\ rocks = <<>>
    /\ high_score = 0
    /\ high_score_file = NoFile
    /\ alive_bullets = <<>>
    /\ spawned_rocks = <<>>
    /\ idx = 1
    /\ key_pressed = NoKeys
    /\ frame = 0
    /\ round = 0
    /\ obj = GameObject(Vector2(0, 0), Vector2(0, 0))

CallScoreHit ==
    /\ pc = "score"
    /\ calls < MaxScoreCalls
    /\ \E radius \in MIN_ROCK_RADIUS..MAX_ROCK_RADIUS :
           /\ score' = score_hit(radius)
           /\ mark' = [radius |-> radius, last_radius |-> mark.radius,
                       last_score |-> score]
    /\ calls' = calls + 1
    /\ UNCHANGED <<pc, ship, bullets, rocks, high_score, high_score_file,
                   alive_bullets, spawned_rocks, idx, key_pressed, frame,
                   round, rand, obj>>

NextScore == CallScoreHit

SpecScore == InitScore /\ [][NextScore]_vars

(***************************************************************************)
(* SpecBullet: a Bullet on its own.  A bullet fired from the ship's first  *)
(* position in one of BulletRotations receives time_step() and then        *)
(* alive(), as in lines 578-579, up to the age MaxAge; mark holds what     *)
(* alive() returned and what it had returned the time before.              *)
(***************************************************************************)
MaxAge == 17

BulletRotations == {r \in 0..359 : r % ROTATE_ANGLE = 0}

InitBullet ==
    /\ pc = "bullet"
    /\ \E rotation \in BulletRotations :
           obj = Bullet(Vector2(START_X, START_Y),
                        rotate(Vector2(1, 0), rotation))
    /\ mark = [alive |-> alive(obj), was_alive |-> TRUE]
    /\ calls = 0
    /\ rand = GameRandom
    /\ ship = NewShip(0)
    /\ bullets = <<>>
    /\ rocks = <<>>
    /\ score = 0
    /\ high_score = 0
    /\ high_score_file = NoFile
    /\ alive_bullets = <<>>
    /\ spawned_rocks = <<>>
    /\ idx = 1
    /\ key_pressed = NoKeys
    /\ frame = 0
    /\ round = 0

CallTimeStepAlive ==
    /\ pc = "bullet"
    /\ obj.age < MaxAge
    /\ obj' = time_step(obj)
    /\ mark' = [alive |-> alive(obj'), was_alive |-> mark.alive]
    /\ calls' = calls + 1
    /\ UNCHANGED <<pc, ship, bullets, rocks, score, high_score,
                   high_score_file, alive_bullets, spawned_rocks, idx,
                   key_pressed, frame, round, rand>>

NextBullet == CallTimeStepAlive

SpecBullet == InitBullet /\ [][NextBullet]_vars

(***************************************************************************)
(* SpecHighScore: main and the high score file.  main reads the high score *)
(* from one of HighScoreFiles, then plays up to MaxRounds rounds; here     *)
(* game_loop is called, runs with pc "spawn" (the events of its frames are *)
(* polled at line 554) and returns one of RoundScores, or the player quits *)
(* inside it.  mark is the file as main found it.                          *)
(***************************************************************************)
MaxRounds == 2

\* What game_loop returns: nothing shot, or some rocks.
RoundScores == {0, score_hit(70), score_hit(20), score_hit(70) + score_hit(20)}

\* Texts of the file: empty, a number with and without its newline, with
\* white space, with a sign, with leading zeros, followed by a second line,
\* followed by a letter, a letter only, and after an empty line; lines
\* that end with a carriage return, with and without a newline; tab, form
\* feed and vertical tab around the number; underscores in the number.
HighScoreTexts ==
    {<<>>,
     <<"1", "2", "0", NEWLINE>>,
     <<"1", "2", "0">>,
     <<" ", "7", " ", NEWLINE>>,
     <<"-", "5", NEWLINE>>,
     <<"+", "3", NEWLINE>>,
     <<"0", "9", "5", NEWLINE>>,
     <<"9", "0", NEWLINE, "5", "5", NEWLINE>>,
     <<"1", "2", "a", NEWLINE>>,
     <<"a", NEWLINE>>,
     <<NEWLINE, "1", "2", "0", NEWLINE>>,
     <<"1", "2", "0", "\r", NEWLINE>>,
     <<"7", "\r", "8", NEWLINE>>,
     <<"\r", "7", NEWLINE>>,
     <<"\t", "7", "\f", NEWLINE>>,
     <<VTAB, "7", NEWLINE>>,
     <<"1", "_", "0", NEWLINE>>,
     <<"1", "_", "_", "0", NEWLINE>>,
     <<"_", "1", NEWLINE>>,
     <<"1", "_", NEWLINE>>}

HighScoreFiles ==
    {[NoFile EXCEPT !.writable = w] : w \in {"yes", "no", "full"}}
    \cup {[exists |-> TRUE, readable |-> r, writable |-> w, text |-> t] :
             r \in BOOLEAN, w \in {"yes", "no", "full"},
             t \in HighScoreTexts}

InitHighScore ==
    /\ pc = "start"
    /\ high_score_file \in HighScoreFiles
    /\ mark = high_score_file
    /\ high_score = 0
    /\ score = 0
    /\ round = 0
    /\ calls = 0
    /\ rand = GameRandom
    /\ ship = NewShip(0)
    /\ bullets = <<>>
    /\ rocks = <<>>
    /\ alive_bullets = <<>>
    /\ spawned_rocks = <<>>
    /\ idx = 1
    /\ key_pressed = NoKeys
    /\ frame = 0
    /\ obj = GameObject(Vector2(0, 0), Vector2(0, 0))

\* main, line 685: high_score = get_high_score()
ReadHighScore ==
    /\ pc = "start"
    /\ high_score' = get_high_score(high_score_file)
    /\ pc' = "info"
    /\ UNCHANGED <<ship, bullets, rocks, score, high_score_file,
                   alive_bullets, spawned_rocks, idx, key_pressed, frame,
                   round, rand, mark, obj, calls>>

\* main, line 693: game_loop is called and runs its frames.
CallGameLoop ==
    /\ pc = "info"
    /\ round < MaxRounds
    /\ pc' = "spawn"
    /\ UNCHANGED <<ship, bullets, rocks, score, high_score, high_score_file,
                   alive_bullets, spawned_rocks, idx, key_pressed, frame,
                   round, rand, mark, obj, calls>>

\* Lines 624 and 693: a rock hits the ship, game_loop returns and main has
\* new_score.
PlayRound ==
    /\ pc = "spawn"
    /\ score' \in RoundScores
    /\ round' = round + 1
    /\ pc' = "over"
    /\ UNCHANGED <<ship, bullets, rocks, high_score, high_score_file,
                   alive_bullets, spawned_rocks, idx, key_pressed, frame,
                   rand, mark, obj, calls>>

NextHighScore ==
    \/ ReadHighScore
    \/ CallGameLoop
    \/ PlayRound
    \/ GameOver
    \/ Terminate

SpecHighScore == InitHighScore /\ [][NextHighScore]_vars

(***************************************************************************)
(* SpecPass: the rest of a frame from the loop over the bullets on (lines  *)
(* 577-638), from these states: PassRocks rocks that were spawned off      *)
(* screen and have moved once, and one or two bullets, the older first,    *)
(* each with its front end at the centre of a rock and an age from         *)
(* PassAges.                                                               *)
(***************************************************************************)
PassRocks == 2

\* Ages of a bullet at the start of a frame: new, one frame and no frame
\* left to live.
PassAges == {0, MAX_BULLET_AGE - 1, MAX_BULLET_AGE}

PassRandom ==
    [radii |-> {20, 70}, angles |-> {0}, speeds |-> {4},
     colours |-> {<<255, 150, 100>>}, coords |-> {300}, rotations |-> {90}]

\* The lists of one or two bullets aimed at rocks of rs.
PassBullets(rs) ==
    LET aimed == {[AimedAt(rs[i]) EXCEPT !.age = a] :
                     i \in 1..Len(rs), a \in PassAges}
    IN  {<<b>> : b \in aimed}
        \cup {<<p[1], p[2]>> : p \in {q \in aimed \X aimed :
                                           q[2].age < q[1].age}}

InitPass ==
    /\ pc = "bullets"
    /\ rand = PassRandom
    /\ \E rs \in spawn_offscreen_rocks(PassRocks) :
           rocks = [i \in 1..Len(rs) |-> move(rs[i])]
    /\ bullets \in PassBullets(rocks)
    /\ frame = MAX_BULLET_AGE + 1
    /\ score = 0
    /\ mark = [rocks |-> rocks, bullets |-> bullets, score |-> score,
               hits |-> <<>>, ship |-> NewShip(90), merged |-> <<>>,
               fired |-> [i \in 1..Len(bullets) |-> frame - bullets[i].age],
               kept |-> <<>>]
    /\ ship = NewShip(90)
    /\ alive_bullets = <<>>
    /\ spawned_rocks = <<>>
    /\ idx = 1
    /\ key_pressed = NoKeys
    /\ round = 1
    /\ high_score = 0
    /\ high_score_file = NoFile
    /\ obj = GameObject(Vector2(0, 0), Vector2(0, 0))
    /\ calls = 0

NextPass ==
    \/ BulletStep
    \/ Merge
    \/ RockStep
    \/ ShipMove

SpecPass == InitPass /\ [][NextPass]_vars

(***************************************************************************)
(* Properties.                                                             *)
(***************************************************************************)
\* The rocks of rs whose circle holds the front end of the bullet.
Struck(bullet, rs) ==
    {k \in 1..Len(rs) : is_inside_circle(end_pos(bullet), rs[k].position,
                                         rs[k].radius)}

\* The least element of a non-empty set of numbers.
Least(S) == CHOOSE k \in S : \A j \in S : k <= j

\* The sequence rs without its k-th element.
Without(rs, k) == SubSeq(rs, 1, k - 1) \o SubSeq(rs, k + 1, Len(rs))

\* The rock a recorded hit destroyed.
Destroyed(h) == h.before[Least(Struck(h.bullet, h.before))]

RECURSIVE Gained(_)
\* The points of a sequence of recorded hits.
Gained(hs) == IF hs = <<>> THEN 0 ELSE Head(hs).gained + Gained(Tail(hs))

\* The hits recorded for the current frame.
Hits == {mark.hits[i] : i \in 1..Len(mark.hits)}

\* The speed the ship may have: MAX_SHIP_SPEED and half a unit of tolerance
\* for the rounding of the fixed point arithmetic.
SpeedLimit == MAX_SHIP_SPEED * SCALE + (SCALE \div 2)

\* C1 (as claimed): after any sequence of accelerate(1), turn_left and
\* turn_right calls on the initial ship, the length of its velocity is at
\* most MAX_SHIP_SPEED.
C1_SpeedNeverExceedsMax ==
    pc = "control" =>
        length_squared(ship.velocity) <= SpeedLimit * SpeedLimit

\* C2: move wraps each axis on its own: an updated coordinate at or beyond
\* the bound becomes 0, one below 0 becomes bound - 1, any other is kept;
\* so the position after a move lies in [0, MAX_X) x [0, MAX_Y).
C2_MoveWraps ==
    (pc = "move" /\ calls > 0) =>
        LET ux == mark.position.x + mark.velocity.x
            uy == mark.position.y + mark.velocity.y
        IN  /\ obj.position.x = IF ux >= MAX_X * SCALE THEN 0
                                ELSE IF ux < 0 THEN (MAX_X - 1) * SCALE
                                ELSE ux
            /\ obj.position.y = IF uy >= MAX_Y * SCALE THEN 0
                                ELSE IF uy < 0 THEN (MAX_Y - 1) * SCALE
                                ELSE uy
            /\ 0 <= obj.position.x /\ obj.position.x < MAX_X * SCALE
            /\ 0 <= obj.position.y /\ obj.position.y < MAX_Y * SCALE
            /\ obj.velocity = mark.velocity

\* C2 witness: a move wrapped x from below 0 to MAX_X - 1 and y from
\* beyond MAX_Y to 0.
C2_Witness ==
    /\ pc = "move" /\ calls > 0
    /\ mark.position.x + mark.velocity.x < 0
    /\ obj.position.x = (MAX_X - 1) * SCALE
    /\ mark.position.y + mark.velocity.y >= MAX_Y * SCALE
    /\ obj.position.y = 0

\* C3: there are never more than MAX_BULLETS bullets; the keys of a frame
\* add one bullet when space is held and fewer than MAX_BULLETS are alive,
\* and leave the bullets as they are otherwise.
C3_BulletCap ==
    /\ [](Len(bullets) <= MAX_BULLETS /\ Len(alive_bullets) <= MAX_BULLETS)
    /\ [][(pc = "keys" /\ pc' = "spawn") =>
            IF key_pressed'.space /\ Len(bullets) < MAX_BULLETS
            THEN /\ Len(bullets') = Len(bullets) + 1
                 /\ SubSeq(bullets', 1, Len(bullets)) = bullets
            ELSE bullets' = bullets]_vars

\* C3 witness: space is held with MAX_BULLETS bullets alive, none of them
\* new: the count stays at MAX_BULLETS.
C3_Witness ==
    /\ pc = "spawn"
    /\ key_pressed.space
    /\ Len(bullets) = MAX_BULLETS
    /\ \A i \in 1..Len(bullets) : bullets[i].age >= 1

\* C4: a bullet's hit adds exactly 2 * MAX_ROCK_RADIUS - radius of the rock
\* hit to the score, takes that rock from the rocks and the bullet from the
\* bullets, and stages fragments exactly when the radius is above
\* MIN_ROCK_RADIUS; the rocks not hit stay, and nothing else changes the
\* score.
C4_HitEffect ==
    pc \in {"bullets", "rocks", "over"} =>
        /\ \A h \in Hits :
               /\ Struck(h.bullet, h.before) # {}
               /\ h.gained = 2 * MAX_ROCK_RADIUS - Destroyed(h).radius
               /\ h.after = Without(h.before, Least(Struck(h.bullet, h.before)))
               /\ (h.fragments # <<>>) <=> (Destroyed(h).radius > MIN_ROCK_RADIUS)
               /\ \A j \in 1..Len(alive_bullets) : alive_bullets[j] # h.bullet
               /\ pc # "bullets" =>
                      \A j \in 1..Len(bullets) : bullets[j] # h.bullet
        /\ mark.hits # <<>> => mark.hits[1].before = mark.rocks
        /\ \A i \in 1..(Len(mark.hits) - 1) :
               mark.hits[i + 1].before = mark.hits[i].after
        /\ pc = "bullets" =>
               rocks = IF mark.hits = <<>> THEN mark.rocks
                       ELSE mark.hits[Len(mark.hits)].after
        /\ score = mark.score + Gained(mark.hits)

\* C4 witness: a bullet has hit a rock of the smallest size, which staged
\* no fragment, and more than MIN_NUM_ROCKS rocks are left: the fragments
\* that an earlier hit on a larger rock staged.
C4_Witness ==
    /\ pc = "bullets"
    /\ \E h \in Hits :
           /\ Destroyed(h).radius = MIN_ROCK_RADIUS
           /\ h.fragments = <<>>
           /\ h.gained = 2 * MAX_ROCK_RADIUS - MIN_ROCK_RADIUS
    /\ Len(rocks) > MIN_NUM_ROCKS

\* C5: a bullet destroys at most one rock in a frame, the first of the list
\* among those that hold its front end; a rock destroyed by a bullet is not
\* among the rocks the later bullets of the frame are tested against; so a
\* frame destroys at most as many rocks as there are bullets.
C5_FirstMatchWins ==
    pc \in {"bullets", "rocks", "over"} =>
        /\ \A h \in Hits :
               /\ Len(h.after) = Len(h.before) - 1
               /\ \E k \in Struck(h.bullet, h.before) :
                      /\ \A j \in Struck(h.bullet, h.before) : k <= j
                      /\ h.after = Without(h.before, k)
        /\ \A i \in 1..(Len(mark.hits) - 1) :
               mark.hits[i + 1].before = mark.hits[i].after
        /\ Len(mark.hits) <= Len(mark.bullets)
        /\ pc = "bullets" => Len(mark.rocks) - Len(rocks) = Len(mark.hits)
        /\ pc = "bullets" => Len(mark.rocks) - Len(rocks) <= Len(mark.bullets)

\* C5 witness: the front end of a bullet was inside several rocks and one
\* of them was destroyed.
C5_Witness ==
    /\ pc = "bullets"
    /\ \E h \in Hits : Cardinality(Struck(h.bullet, h.before)) >= 2

\* C6: the explosion of a rock of radius MIN_ROCK_RADIUS makes no fragment;
\* that of a larger rock makes 2 or 3, each with a radius from
\* MIN_ROCK_RADIUS up to but not including the rock's, in steps of
\* ROCK_RADIUS_SIZE_STEP from MIN_ROCK_RADIUS.
C6_FragmentRadii ==
    \A h \in Hits :
        IF Destroyed(h).radius = MIN_ROCK_RADIUS
        THEN h.fragments = <<>>
        ELSE /\ Len(h.fragments) \in {2, 3}
             /\ \A i \in 1..Len(h.fragments) :
                    /\ MIN_ROCK_RADIUS <= h.fragments[i].radius
                    /\ h.fragments[i].radius < Destroyed(h).radius
                    /\ (h.fragments[i].radius - MIN_ROCK_RADIUS)
                           % ROCK_RADIUS_SIZE_STEP = 0

\* C6 witness: a rock of radius above MIN_ROCK_RADIUS + ROCK_RADIUS_SIZE_STEP
\* exploded into three fragments of different radii.
C6_Witness ==
    /\ pc = "done"
    /\ \E h \in Hits :
           /\ Len(h.fragments) = 3
           /\ h.fragments[1].radius # h.fragments[2].radius
           /\ h.fragments[3].radius = Destroyed(h).radius - ROCK_RADIUS_SIZE_STEP

\* C7 (as claimed): every fragment is at the position of the rock destroyed
\* and has its colour.
C7_FragmentsInheritColour ==
    \A h \in Hits : \A i \in 1..Len(h.fragments) :
        /\ h.fragments[i].position = Destroyed(h).position
        /\ h.fragments[i].colour = Destroyed(h).colour

\* The velocities spawn_rock can give a rock.
RockVelocities ==
    {VecMul(rotate(Vector2(1, 0), angle), speed) :
        angle \in rand.angles,
        speed \in (MIN_ROCK_SPEED..MAX_ROCK_SPEED) \cap rand.speeds}

\* C7 (amended): every fragment is at the position of the rock destroyed;
\* its colour is one random_colour() returns and its velocity one spawn_rock
\* draws, and whatever the colour and the velocity of a rock about to
\* explode, every colour and every velocity can be those of all its
\* fragments.
C7_FragmentsAtParent ==
    /\ \A h \in Hits : \A i \in 1..Len(h.fragments) :
           /\ h.fragments[i].position = Destroyed(h).position
           /\ h.fragments[i].colour \in random_colour
           /\ h.fragments[i].velocity \in RockVelocities
    /\ pc = "shoot" =>
           \A k \in 1..Len(rocks) :
               rocks[k].radius > MIN_ROCK_RADIUS =>
                   \A c \in random_colour : \A v \in RockVelocities :
                       \E new_rocks \in spawn_rocks_explosion(rocks[k]) :
                           \A i \in 1..Len(new_rocks) :
                               /\ new_rocks[i].colour = c
                               /\ new_rocks[i].velocity = v

\* C7 witness: a rock exploded into fragments at its position, one of them
\* of another colour and another velocity than the rock.
C7_Witness ==
    /\ pc = "done"
    /\ \E h \in Hits : \E i \in 1..Len(h.fragments) :
           /\ h.fragments[i].position = Destroyed(h).position
           /\ h.fragments[i].colour # Destroyed(h).colour
           /\ h.fragments[i].velocity # Destroyed(h).velocity

\* C8: the maintenance step of a frame appends exactly MIN_NUM_ROCKS - n
\* rocks when n < MIN_NUM_ROCKS rocks are alive and none otherwise, so that
\* right after it at least MIN_NUM_ROCKS rocks are alive.
C8_Maintenance ==
    /\ []((pc = "bullets" /\ idx = 1) => Len(rocks) >= MIN_NUM_ROCKS)
    /\ [][(pc = "spawn" /\ pc' = "bullets") =>
            /\ SubSeq(rocks', 1, Len(rocks)) = rocks
            /\ Len(rocks') = IF Len(rocks) < MIN_NUM_ROCKS
                             THEN MIN_NUM_ROCKS ELSE Len(rocks)
            /\ Len(rocks') >= MIN_NUM_ROCKS]_vars

\* C8 witness: after a rock was shot the maintenance step has just brought
\* the rocks back to MIN_NUM_ROCKS with a rock spawned above the screen.
C8_Witness ==
    /\ pc = "bullets" /\ idx = 1
    /\ score > 0
    /\ Len(rocks) = MIN_NUM_ROCKS
    /\ rocks[MIN_NUM_ROCKS].position.y = OFFSCREEN

\* Some corner of the ship is inside the rock.
Touches(s, rock) ==
    \E p \in 1..3 : is_inside_circle(points(s)[p], rock.position, rock.radius)

\* C9: in the loop over the rocks each rock is moved and then tested, and
\* game_loop returns exactly when a corner of the ship is inside the rock
\* just moved; the round ends in no other way, and once it has ended main
\* goes to the game over screen and only a new round follows.
C9_RoundEndsOnCollision ==
    /\ [][(pc = "rocks" /\ idx <= Len(rocks)) =>
            /\ rocks' = [rocks EXCEPT ![idx] = move(rocks[idx])]
            /\ (pc' = "over") <=> Touches(ship, rocks'[idx])
            /\ pc' \in {"over", "rocks"}]_vars
    /\ [][(pc' = "over" /\ pc # "over") =>
            (pc = "rocks" /\ idx <= Len(rocks))]_vars
    /\ [][pc = "over" =>
            (pc' = "info" /\ score' = score /\ frame' = frame
                /\ round' = round)]_vars
    /\ [][(pc = "info" /\ pc' = "keys") => round' = round + 1]_vars

\* C9 witness: game_loop has returned with a corner of the ship inside the
\* rock it had just moved.
C9_Witness ==
    /\ pc = "over"
    /\ Touches(ship, rocks[idx])

\* C10: the score is a natural number, never decreases while a round runs,
\* and is 0 when a round starts.
C10_ScoreMonotone ==
    /\ [](score \in Nat)
    /\ [][pc # "info" => score' >= score]_vars
    /\ [][(pc = "info" /\ pc' = "keys") => score' = 0]_vars

\* C10 witness: a second round has started with score 0 after a round that
\* ended with a positive score.
C10_Witness ==
    /\ pc = "keys"
    /\ round >= 2
    /\ high_score > 0
    /\ score = 0

\* C11: score_hit(radius) is 2 * MAX_ROCK_RADIUS - radius and is positive
\* for every radius from MIN_ROCK_RADIUS to MAX_ROCK_RADIUS, and of two
\* radii in that range the larger scores strictly less.
C11_ScoreHitDecreasing ==
    (pc = "score" /\ calls > 0) =>
        /\ score = 2 * MAX_ROCK_RADIUS - mark.radius
        /\ score > 0
        /\ calls > 1 =>
               /\ mark.radius > mark.last_radius => score < mark.last_score
               /\ mark.radius < mark.last_radius => score > mark.last_score
               /\ mark.radius = mark.last_radius => score = mark.last_score

\* C11 witness: score_hit was called for the smallest radius and then for
\* the largest, which scored less, and still something.
C11_Witness ==
    /\ pc = "score" /\ calls > 1
    /\ mark.last_radius = MIN_ROCK_RADIUS
    /\ mark.radius = MAX_ROCK_RADIUS
    /\ score < mark.last_score
    /\ score = MAX_ROCK_RADIUS

\* C12: the radius of every rock, spawned off screen or by an explosion, is
\* from MIN_ROCK_RADIUS to MAX_ROCK_RADIUS, and the radius of every rock an
\* explosion spawned is strictly less than that of the rock that exploded.
C12_RadiusBounds ==
    /\ \A i \in 1..Len(rocks) :
           /\ MIN_ROCK_RADIUS <= rocks[i].radius
           /\ rocks[i].radius <= MAX_ROCK_RADIUS
    /\ \A i \in 1..Len(spawned_rocks) :
           /\ MIN_ROCK_RADIUS <= spawned_rocks[i].radius
           /\ spawned_rocks[i].radius <= MAX_ROCK_RADIUS
    /\ \A h \in Hits : \A i \in 1..Len(h.fragments) :
           h.fragments[i].radius < Destroyed(h).radius
    /\ \A h \in Hits : \A i \in 1..Len(h.fragments) :
           \E j \in 1..Len(spawned_rocks) : spawned_rocks[j] = h.fragments[i]

\* C12 witness: of the rocks spawned off screen one of the largest radius
\* the spawner gives is left and another exploded into rocks of the
\* smallest radius and of a radius just below its own.
C12_Witness ==
    /\ pc = "done"
    /\ \E i \in 1..Len(rocks) :
           rocks[i].radius = MAX_ROCK_RADIUS - ROCK_RADIUS_SIZE_STEP
    /\ \E h \in Hits :
           /\ \E i \in 1..Len(h.fragments) :
                  h.fragments[i].radius = MIN_ROCK_RADIUS
           /\ \E i \in 1..Len(h.fragments) :
                  h.fragments[i].radius
                      = Destroyed(h).radius - ROCK_RADIUS_SIZE_STEP
           /\ \E j \in 1..Len(spawned_rocks) :
                  spawned_rocks[j].radius > MIN_ROCK_RADIUS

\* C13: Bullet.alive() is true exactly when the age is at most
\* MAX_BULLET_AGE: true at the age MAX_BULLET_AGE, false at
\* MAX_BULLET_AGE + 1.
C13_AliveBoundary ==
    pc = "bullet" =>
        /\ mark.alive \in BOOLEAN
        /\ mark.alive <=> (obj.age <= MAX_BULLET_AGE)
        /\ obj.age = MAX_BULLET_AGE => mark.alive
        /\ obj.age = MAX_BULLET_AGE + 1 => ~mark.alive

\* C13 witness: alive() has just returned False for a bullet of age
\* MAX_BULLET_AGE + 1, after True one time step before.
C13_Witness ==
    /\ pc = "bullet"
    /\ obj.age = MAX_BULLET_AGE + 1
    /\ ~mark.alive
    /\ mark.was_alive

\* C14: spawn_offscreen_rocks(count) returns count rocks: the first
\* count // 2 at x = -MAX_ROCK_RADIUS / 2 with y from 0 to MAX_Y - 1, the
\* others, one more when count is odd, at y = -MAX_ROCK_RADIUS / 2 with x
\* from 0 to MAX_X - 1; all of them off the screen.
C14_OffscreenSplit ==
    pc = "shoot" =>
        /\ Len(rocks) = calls
        /\ \A i \in 1..Len(rocks) :
               IF i <= calls \div 2
               THEN /\ 2 * rocks[i].position.x = -(MAX_ROCK_RADIUS * SCALE)
                    /\ 0 <= rocks[i].position.y
                    /\ rocks[i].position.y <= (MAX_Y - 1) * SCALE
               ELSE /\ 2 * rocks[i].position.y = -(MAX_ROCK_RADIUS * SCALE)
                    /\ 0 <= rocks[i].position.x
                    /\ rocks[i].position.x <= (MAX_X - 1) * SCALE
        /\ \A i \in 1..Len(rocks) :
               rocks[i].position.x < 0 \/ rocks[i].position.y < 0
        /\ Cardinality({i \in 1..Len(rocks) : rocks[i].position.y < 0})
               = calls - (calls \div 2)

\* C14 witness: three rocks were asked for; the first is left of the
\* screen at y = MAX_Y - 1 and the two others are above it, the last at
\* x = MAX_X - 1.
C14_Witness ==
    /\ pc = "shoot"
    /\ calls = 3
    /\ Len(rocks) = 3
    /\ rocks[1].position.x < 0
    /\ rocks[1].position.y = (MAX_Y - 1) * SCALE
    /\ rocks[2].position.y < 0
    /\ rocks[3].position.y < 0
    /\ rocks[3].position.x = (MAX_X - 1) * SCALE

\* The digits d with one underscore between two of them.
Grouped(d) ==
    {SubSeq(d, 1, i) \o <<"_">> \o SubSeq(d, i + 1, Len(d)) :
        i \in 1..(Len(d) - 1)}

\* The decimal numerals of the number n: with a sign or without, with
\* leading zeros or without, with an underscore between two digits or
\* without.
Numerals(n) ==
    IF n < 0 THEN {<<"-">> \o str(-n), <<"-", "0">> \o str(-n)}
    ELSE {str(n), <<"0">> \o str(n), <<"+">> \o str(n)} \cup Grouped(str(n))

\* White space in a line: nothing, or a blank, a tab, a vertical tab or a
\* form feed.
Blanks == {<<>>, <<" ">>, <<"\t">>, <<VTAB>>, <<"\f">>}

\* The text is a numeral of n between white space.
Spells(text, n) ==
    \E lead, trail \in Blanks :
        \E numeral \in Numerals(n) : text = lead \o numeral \o trail

\* The numbers the model's files and scores can spell.
Stored == -9..999

\* The characters that end a line of a text file.
LineEnds == {NEWLINE, "\r"}

\* The first line of a text, up to its line end.
Line1(text) ==
    IF \E i \in 1..Len(text) : text[i] \in LineEnds
    THEN SubSeq(text, 1, (CHOOSE i \in 1..Len(text) :
                              /\ text[i] \in LineEnds
                              /\ \A j \in 1..(i - 1) :
                                     text[j] \notin LineEnds) - 1)
    ELSE text

\* C15: get_high_score returns 0 when the file is missing, cannot be read,
\* is empty or has no integer as its first line, and the integer of the
\* first line otherwise; when save_high_score fails, main still has the new
\* high score and goes on to the game over screen, and when it succeeds the
\* file reads back as the high score.
C15_HighScoreFile ==
    /\ [][pc = "start" =>
            /\ pc' = "info"
            /\ high_score_file' = high_score_file
            /\ IF /\ high_score_file.exists
                  /\ high_score_file.readable
                  /\ high_score_file.text # <<>>
                  /\ \E n \in Stored : Spells(Line1(high_score_file.text), n)
               THEN Spells(Line1(high_score_file.text), high_score')
               ELSE high_score' = 0]_vars
    /\ [][pc = "over" =>
            /\ pc' = "info"
            /\ high_score' = IF score > high_score THEN score ELSE high_score
            /\ score' = score /\ round' = round
            /\ score <= high_score => high_score_file' = high_score_file
            /\ (score > high_score /\ high_score_file.writable = "yes")
                   => /\ high_score_file'.exists
                      /\ high_score_file'.text = Append(str(score), NEWLINE)
                      /\ get_high_score(high_score_file') = high_score'
                             \/ ~high_score_file.readable
            /\ (score > high_score /\ high_score_file.writable = "no")
                   => high_score_file' = high_score_file]_vars

\* C15 witness: main read the number of its file, a round beat it, the
\* file could not be written, and a second round is over with less than
\* the new high score, which main still has.
C15_Witness ==
    /\ pc = "info"
    /\ round = 2
    /\ mark.exists /\ mark.readable /\ mark.writable = "no"
    /\ mark.text = <<"1", "2", "0", NEWLINE>>
    /\ high_score_file = mark
    /\ high_score > 120
    /\ score < high_score

\* C16: when game_loop returns because a rock hit the ship, the rocks after
\* that rock in the list are where they were when the loop over the rocks
\* began, the rocks up to it have moved once, the ship is where the keys of
\* the frame left it, and the score is the score of the frame's start plus
\* the points of the frame's hits; the bullets and rocks are those the
\* frame's loop over the bullets left, the spawned rocks included.
C16_CollisionFrame ==
    pc = "over" =>
        /\ Len(rocks) = Len(mark.merged)
        /\ idx \in 1..Len(rocks)
        /\ \A j \in 1..Len(rocks) :
               rocks[j] = IF j <= idx THEN move(mark.merged[j])
                          ELSE mark.merged[j]
        /\ ship = mark.ship
        /\ score = mark.score + Gained(mark.hits)
        /\ bullets = alive_bullets
        /\ mark.merged = (IF mark.hits = <<>> THEN mark.rocks
                          ELSE mark.hits[Len(mark.hits)].after)
                             \o spawned_rocks

\* C16 witness: game_loop has returned in a frame in which a bullet had hit
\* a rock, with rocks left in the list after the rock that hit the ship.
C16_Witness ==
    /\ pc = "over"
    /\ mark.hits # <<>>
    /\ score > mark.score
    /\ idx < Len(rocks)
    /\ rocks[idx + 1] = mark.merged[idx + 1]
    /\ move(rocks[idx + 1]) # rocks[idx + 1]
    /\ move(ship) # ship

\* C17: the turn of a bullet in the loop over the bullets adds one to its
\* age first; a bullet whose age then exceeds MAX_BULLET_AGE is not moved
\* and not tested against the rocks (the rocks, the spawned rocks and the
\* score stay as they are) and is not among the bullets the loop keeps,
\* while a younger bullet is moved and either kept or recorded as a hit.
C17_ExpiredBulletDropped ==
    /\ [][(pc = "bullets" /\ idx <= Len(bullets)) =>
            /\ bullets'[idx].age = bullets[idx].age + 1
            /\ IF bullets[idx].age + 1 > MAX_BULLET_AGE
               THEN /\ bullets'[idx].position = bullets[idx].position
                    /\ rocks' = rocks
                    /\ spawned_rocks' = spawned_rocks
                    /\ score' = score
                    /\ alive_bullets' = alive_bullets
                    /\ mark'.hits = mark.hits
               ELSE /\ bullets'[idx].position = move(bullets[idx]).position
                    /\ \/ /\ alive_bullets' = Append(alive_bullets, bullets'[idx])
                          /\ mark'.hits = mark.hits
                       \/ /\ alive_bullets' = alive_bullets
                          /\ Len(mark'.hits) = Len(mark.hits) + 1]_vars
    /\ [][(pc = "bullets" /\ pc' = "rocks") =>
            /\ bullets' = alive_bullets
            /\ \A j \in 1..Len(bullets') :
                   bullets'[j].age <= MAX_BULLET_AGE]_vars
    /\ [](pc # "bullets" =>
            \A j \in 1..Len(bullets) : bullets[j].age <= MAX_BULLET_AGE)

\* C17 witness: a bullet with its front end inside a rock has just reached
\* the age MAX_BULLET_AGE + 1: it is where its last move left it and not
\* among the bullets kept, and the rock is still there and nothing scored.
C17_Witness ==
    /\ pc = "bullets"
    /\ idx = 2
    /\ bullets[1].age = MAX_BULLET_AGE + 1
    /\ bullets[1].position = mark.bullets[1].position
    /\ move(bullets[1]).position # bullets[1].position
    /\ Struck(bullets[1], rocks) # {}
    /\ Struck(move(bullets[1]), rocks) # {}
    /\ alive_bullets = <<>>
    /\ rocks = mark.rocks
    /\ score = mark.score

\* The frame in which the i-th bullet was fired, from its age: the frame's
\* loop over the bullets has added one to the age of the bullets before
\* idx, and after the loop to the age of all.
BirthFrame(i) ==
    IF pc = "spawn" \/ (pc = "bullets" /\ i >= idx)
    THEN frame - bullets[i].age
    ELSE frame - bullets[i].age + 1

\* The frames in which the bullets were fired.
Births == {BirthFrame(i) : i \in 1..Len(bullets)}

\* C18: the age of a bullet grows by exactly one in each frame in which it
\* is among the bullets, in its turn of the loop over the bullets and
\* nowhere else; the bullets are told apart by the frame in which they
\* were fired, and only a bullet fired in the frame that begins joins the
\* bullets, so a bullet that has left them never comes back (as long as the
\* program runs: pc is not "exit").
C18_AgeMonotone ==
    /\ [][(pc = "bullets" /\ idx <= Len(bullets)) =>
            /\ Len(bullets') = Len(bullets)
            /\ bullets'[idx].age = bullets[idx].age + 1
            /\ \A j \in 1..Len(bullets) :
                   j # idx => bullets'[j] = bullets[j]]_vars
    /\ [][~(pc = "bullets" /\ idx <= Len(bullets)) =>
            \A j \in 1..Len(bullets') :
                \/ \E i \in 1..Len(bullets) : bullets'[j] = bullets[i]
                \/ pc = "keys" /\ j = Len(bullets') /\ bullets'[j].age = 0]_vars
    /\ [][pc' # "exit" =>
            /\ Births' \subseteq
                   Births \cup (IF pc = "keys" THEN {frame'} ELSE {})
            /\ \A b \in Births' \ Births :
                   /\ frame' = frame + 1
                   /\ \A c \in Births : c < b]_vars
    /\ [](pc # "exit" =>
            /\ \A b \in Births : 1 <= b /\ b <= frame
            /\ \A i \in 1..Len(bullets) : \A j \in 1..Len(bullets) :
                   i < j => BirthFrame(i) < BirthFrame(j))

\* C18 witness: the keys of a frame are handled; in the frame before, the
\* older of two bullets left the bullets and the younger grew one frame
\* older, and now a new bullet of age 0 has joined it.
C18_Witness ==
    /\ pc = "spawn"
    /\ Len(mark.bullets) = 2
    /\ Len(bullets) = 2
    /\ bullets[1].age = mark.bullets[2].age + 1
    /\ bullets[1].age >= 2
    /\ bullets[2].age = 0

RECURSIVE IsSubSeq(_, _)
\* The sequence a is b without some of its elements.
IsSubSeq(a, b) ==
    \/ a = <<>>
    \/ /\ b # <<>>
       /\ \/ Head(a) = Head(b) /\ IsSubSeq(Tail(a), Tail(b))
          \/ IsSubSeq(a, Tail(b))

RECURSIVE Staged(_)
\* The rocks the hits hs spawned, in their order.
Staged(hs) == IF hs = <<>> THEN <<>> ELSE Head(hs).fragments \o Staged(Tail(hs))

\* C19: while the bullets of a frame are processed the rocks an explosion
\* spawns are kept apart in spawned_rocks: the rocks a bullet is tested
\* against are rocks of the frame's start, one less for every hit before
\* it.  After the last bullet they are appended to the rocks, and in the
\* loop over the rocks of the same frame each of them is moved and tested
\* against the ship like any other rock; the rocks of spawned_rocks are
\* then the last rocks of the list themselves, moved or not.
C19_FragmentsStaged ==
    /\ [](pc = "bullets" =>
            /\ Len(rocks) = Len(mark.rocks) - Len(mark.hits)
            /\ IsSubSeq(rocks, mark.rocks)
            /\ spawned_rocks = Staged(mark.hits)
            /\ \A k \in 1..Len(mark.hits) :
                   /\ Len(mark.hits[k].before) = Len(mark.rocks) - (k - 1)
                   /\ IsSubSeq(mark.hits[k].before, mark.rocks))
    /\ [][(pc = "bullets" /\ pc' = "rocks") =>
            /\ idx > Len(bullets)
            /\ rocks' = rocks \o spawned_rocks
            /\ spawned_rocks' = spawned_rocks
            /\ idx' = 1]_vars
    /\ [](pc = "rocks" =>
            /\ Len(rocks) = Len(mark.merged)
            /\ SubSeq(rocks, Len(rocks) - Len(spawned_rocks) + 1,
                      Len(rocks)) = spawned_rocks
            /\ \A j \in 1..Len(rocks) :
                   rocks[j] = IF j < idx THEN move(mark.merged[j])
                              ELSE mark.merged[j])
    /\ [][(pc = "rocks" /\ idx <= Len(rocks)) =>
            /\ rocks'[idx] = move(rocks[idx])
            /\ (pc' = "over") <=> Touches(ship, rocks'[idx])]_vars
    /\ [][(pc = "rocks" /\ pc' = "keys") => idx > Len(rocks)]_vars

\* C19 witness: the first of two bullets hit a rock, which exploded; the
\* front end of the second was then inside a rock of the explosion, and
\* the bullet is still alive and the loop over the rocks has moved all
\* rocks, those of the explosion too.
C19_Witness ==
    /\ pc = "rocks"
    /\ idx > Len(rocks)
    /\ Len(mark.bullets) = 2
    /\ Len(mark.hits) = 1
    /\ mark.hits[1].bullet.age > 1
    /\ Len(bullets) = 1
    /\ spawned_rocks # <<>>
    /\ \E j \in (Len(rocks) - Len(spawned_rocks) + 1)..Len(rocks) :
           /\ bullet_hit_rock(bullets[1], mark.merged[j])
           /\ rocks[j] = move(mark.merged[j])
           /\ rocks[j] # mark.merged[j]

\* The elements of a sequence.
Range(q) == {q[i] : i \in 1..Len(q)}

\* The record o without its position.
Fixed(o) == [o EXCEPT !.position = [x |-> 0, y |-> 0]]

\* C20: the move of a rock or of a bullet changes its position and nothing
\* else, also when the position wraps, and no other step changes a rock or
\* a bullet that stays in its list (a bullet's time step changes its age):
\* velocity, radius and colour of a rock and velocity and direction of a
\* bullet are those of its creation, whatever the other rocks do.
C20_MoveChangesOnlyPosition ==
    /\ [][(pc = "rocks" /\ idx <= Len(rocks)) =>
            /\ Len(rocks') = Len(rocks)
            /\ Fixed(rocks'[idx]) = Fixed(rocks[idx])
            /\ \A j \in 1..Len(rocks) : j # idx => rocks'[j] = rocks[j]
            /\ bullets' = bullets]_vars
    /\ [][(pc = "bullets" /\ idx <= Len(bullets)) =>
            /\ Len(bullets') = Len(bullets)
            /\ bullets'[idx].velocity = bullets[idx].velocity
            /\ bullets'[idx].direction = bullets[idx].direction
            /\ \A j \in 1..Len(bullets) : j # idx => bullets'[j] = bullets[j]
            /\ Range(rocks') \subseteq Range(rocks)]_vars
    /\ [][~(pc = "rocks" /\ idx <= Len(rocks)) =>
            Range(rocks') \subseteq
                Range(rocks)
                \cup (IF pc = "bullets" THEN Range(spawned_rocks') ELSE {})
                \cup (IF pc = "spawn"
                      THEN Range(SubSeq(rocks', Len(rocks) + 1, Len(rocks')))
                      ELSE {})]_vars
    /\ [][~(pc = "bullets" /\ idx <= Len(bullets)) =>
            Range(bullets') \subseteq
                Range(bullets)
                \cup (IF pc = "keys" /\ Len(bullets') = Len(bullets) + 1
                      THEN {bullets'[Len(bullets')]} ELSE {})]_vars
    /\ [](/\ \A r \in Range(rocks) \cup Range(spawned_rocks) :
                /\ r.velocity \in RockVelocities
                /\ r.radius \in rand.radii
                /\ r.colour \in rand.colours
          /\ \A b \in Range(bullets) :
                /\ b.velocity = VecMul(b.direction, BULLET_SPEED)
                /\ Abs(length(b.direction) - SCALE) <= 1)

\* C20 witness: the loop over the rocks has moved two rocks that lay on
\* each other above the screen; both wrapped to the bottom line and have
\* the velocity, the radius and the colour they had.
C20_Witness ==
    /\ pc = "rocks"
    /\ idx > MIN_NUM_ROCKS
    /\ \E i \in 1..(idx - 1) : \E j \in 1..(idx - 1) :
           /\ i < j
           /\ mark.merged[i].position = mark.merged[j].position
           /\ mark.merged[i].position.y < 0
           /\ rocks[i].position.y = (MAX_Y - 1) * SCALE
           /\ rocks[j].position.y = (MAX_Y - 1) * SCALE
           /\ Fixed(rocks[i]) = Fixed(mark.merged[i])
           /\ Fixed(rocks[j]) = Fixed(mark.merged[j])
           /\ rocks[i].velocity # [x |-> 0, y |-> 0]
           /\ rocks[i].radius # rocks[j].radius

\* C21: no rock has the radius MAX_ROCK_RADIUS: the radius of every rock,
\* spawned off screen or by an explosion, is one of 20, 30, 40, 50, 60 and
\* 70, so every hit scores at least 90 and at most 140 points.
C21_RadiiBelowMax ==
    /\ \A r \in Range(rocks) \cup Range(spawned_rocks) :
           /\ r.radius \in {20, 30, 40, 50, 60, 70}
           /\ r.radius # MAX_ROCK_RADIUS
    /\ \A h \in Hits :
           /\ Destroyed(h).radius \in {20, 30, 40, 50, 60, 70}
           /\ 90 <= h.gained /\ h.gained <= 140
           /\ h.gained = score_hit(Destroyed(h).radius)

\* C21 witness: with every radius from MIN_ROCK_RADIUS to MAX_ROCK_RADIUS
\* on offer a rock of radius 70 was spawned off screen and shot for 90
\* points, and a rock of radius 20 is left.
C21_Witness ==
    /\ pc = "done"
    /\ MAX_ROCK_RADIUS \in rand.radii
    /\ \E h \in Hits :
           /\ Destroyed(h).radius = 70
           /\ h.gained = 90
           /\ score = 90
    /\ \E r \in Range(rocks) : r.radius = 20

\* The speed the ship can reach: MAX_SHIP_SPEED + 1, and two steps of the
\* fixed point for the rounding of the rotation and of the scaling.
SpeedBound == (MAX_SHIP_SPEED + 1) * SCALE + 2

\* C22: after any sequence of accelerate(1), turn_left and turn_right calls
\* on the ship game_loop builds (speed 1), the length of the velocity is at
\* most MAX_SHIP_SPEED + 1.
C22_SpeedBelowMaxPlusOne ==
    pc = "control" =>
        length_squared(ship.velocity) <= SpeedBound * SpeedBound

\* C22 witness: the ship has gone straight beyond MAX_SHIP_SPEED and a
\* further accelerate(1) has scaled its velocity, which stays above
\* MAX_SHIP_SPEED and below MAX_SHIP_SPEED + 1.
C22_Witness ==
    /\ pc = "control"
    /\ ship.rotation = 0
    /\ ship.velocity.y = 0
    /\ ship.velocity.x > MAX_SHIP_SPEED * SCALE
    /\ ship.velocity.x < (MAX_SHIP_SPEED + 1) * SCALE

\* The bullets of the frame's start among the bullets after the keys.
OldBullets == {i \in 1..Len(mark.bullets) : mark.bullets[i].age >= 1}

\* C23: the keys of a frame turn the ship first, then thrust along the new
\* heading, then fire: a new bullet starts at the ship's position, which
\* the keys leave as it is, along the heading after the turns.  The bullet
\* is accepted exactly when space is held and fewer than MAX_BULLETS
\* bullets are in the list at the start of the frame, whatever becomes of
\* them later in the frame.  In the loop over the bullets of the same frame
\* the new bullet gets the age 1, is moved once and is tested against the
\* rocks: it is kept if its front end is in no rock of the list it met and
\* is a recorded hit otherwise.
C23_IntentOrder ==
    /\ [][(pc = "keys" /\ pc' = "spawn") =>
            LET keys == key_pressed'
                heading == ship.rotation
                             - (IF keys.left THEN ROTATE_ANGLE ELSE 0)
                             + (IF keys.right THEN ROTATE_ANGLE ELSE 0)
                turned == [ship EXCEPT !.rotation = heading]
            IN  /\ ship'.rotation = heading
                /\ ship'.position = ship.position
                /\ ship'.velocity = IF keys.up
                                    THEN accelerate(turned, 1).velocity
                                    ELSE ship.velocity
                /\ IF keys.space /\ Len(bullets) < MAX_BULLETS
                   THEN /\ Len(bullets') = Len(bullets) + 1
                        /\ SubSeq(bullets', 1, Len(bullets)) = bullets
                        /\ LET b == bullets'[Len(bullets')]
                           IN  /\ b.age = 0
                               /\ b.position = ship.position
                               /\ b.direction =
                                      normalize(rotate(Vector2(1, 0), heading))
                               /\ b.velocity = VecMul(b.direction, BULLET_SPEED)
                   ELSE bullets' = bullets]_vars
    /\ [](pc \in {"bullets", "rocks", "over"} =>
            /\ Cardinality(OldBullets) <= MAX_BULLETS
            /\ (key_pressed.space /\ Cardinality(OldBullets) < MAX_BULLETS)
                   => /\ Len(mark.bullets) = Cardinality(OldBullets) + 1
                      /\ mark.bullets[Len(mark.bullets)].age = 0
                      /\ mark.bullets[Len(mark.bullets)].position
                             = mark.ship.position
            /\ ~(key_pressed.space /\ Cardinality(OldBullets) < MAX_BULLETS)
                   => Len(mark.bullets) = Cardinality(OldBullets))
    /\ [](pc \in {"rocks", "over"} =>
            \A i \in 1..Len(mark.bullets) :
                mark.bullets[i].age = 0 =>
                    LET b1 == move(time_step(mark.bullets[i]))
                        met == SubSeq(mark.merged, 1,
                                   Len(mark.merged) - Len(spawned_rocks))
                    IN  /\ b1.age = 1
                        /\ \/ /\ b1 \in Range(bullets)
                              /\ Struck(b1, met) = {}
                           \/ /\ b1 \notin Range(bullets)
                              /\ \E h \in Hits : h.bullet = b1)

\* C23 witness: with left, up and space held the ship has turned and a
\* bullet was fired from the ship's position along the new heading; the
\* loop over the bullets of the same frame has given it the age 1 and moved
\* it once, and the ship has not moved yet.
C23_Witness ==
    /\ pc = "rocks"
    /\ key_pressed.left /\ key_pressed.up /\ key_pressed.space
    /\ ship = mark.ship
    /\ ship.rotation = 90 - 2 * ROTATE_ANGLE
    /\ Len(mark.bullets) = MAX_BULLETS
    /\ mark.bullets[MAX_BULLETS].age = 0
    /\ mark.bullets[MAX_BULLETS].position = ship.position
    /\ mark.bullets[MAX_BULLETS].direction
           = normalize(rotate(Vector2(1, 0), ship.rotation))
    /\ Len(bullets) = MAX_BULLETS
    /\ bullets[MAX_BULLETS].age = 1
    /\ bullets[MAX_BULLETS].position
           = VecAdd(ship.position, bullets[MAX_BULLETS].velocity)

(***************************************************************************)
(* SpecLive: the game with game_loop's while loop running on (lines        *)
(* 523-638): a frame that has begun is carried through, and the next one   *)
(* begins, unless the player quits.  Nothing makes the player press return *)
(* in an info screen, or quit.                                             *)
(***************************************************************************)
\* game_loop is inside its while loop, at a step of Keys, Maintain,
\* BulletStep or RockStep that the model follows.
Running ==
    \/ pc = "keys" /\ frame < MaxFrames
    \/ pc = "spawn"
    \/ pc = "bullets" /\ idx <= Len(bullets)
    \/ pc = "rocks" /\ idx <= Len(rocks)

\* The step of Keys, Maintain, BulletStep or RockStep: by Next, the step
\* from such a state that is not terminate(); it can always be taken.
FrameStep == Running /\ pc' \in {"spawn", "bullets", "rocks", "over"}

\* Weak fairness of FrameStep, WF_vars(FrameStep), written out with Running
\* for ENABLED <<FrameStep>>_vars.
LoopRuns == []<>(~Running) \/ []<><<FrameStep>>_vars

\* The while loop of game_loop has no wait but the clock tick of line 638,
\* so a step that stays possible is taken: the steps inside the loops and
\* the keys (LoopRuns) and the steps that end a loop (Merge, ShipMove).
SpecLive == Spec /\ LoopRuns /\ WF_vars(Merge) /\ WF_vars(ShipMove)

\* The round is over or the program has ended.
Stopped == pc \in {"over", "info", "exit"}

\* The frames whose bullets the model follows for MAX_BULLET_AGE frames.
EarlyFrames == 1..(MaxFrames - MAX_BULLET_AGE)

\* The frames in which the bullets of the list were fired.
FiredFrames == Range(mark.fired)

\* C24: every bullet is removed in the end while the round keeps running.
\* A bullet fired in frame f is moved by the loop over the bullets in the
\* frames f .. f + MAX_BULLET_AGE - 1 and in no other; where it hits no rock
\* it is kept for the next frame; in frame f + MAX_BULLET_AGE it is not
\* moved, not tested and not kept.  So at the end of a frame every bullet
\* of the list was fired at most MAX_BULLET_AGE - 1 frames before; and
\* while the round runs a bullet that was fired leaves the list and a full
\* list gets a free place again (for the bullets fired in EarlyFrames).
C24_BulletsExpire ==
    /\ [][(pc = "bullets" /\ idx <= Len(bullets) /\ idx' = idx + 1) =>
            LET f == mark.fired[idx]
            IN  /\ f <= frame
                /\ frame <= f + MAX_BULLET_AGE
                /\ IF frame <= f + MAX_BULLET_AGE - 1
                   THEN /\ bullets'[idx].position
                               = move(bullets[idx]).position
                        /\ bullets'[idx].position # bullets[idx].position
                        /\ IF mark'.hits = mark.hits
                           THEN /\ alive_bullets'
                                       = Append(alive_bullets, bullets'[idx])
                                /\ mark'.kept = Append(mark.kept, f)
                           ELSE /\ alive_bullets' = alive_bullets
                                /\ mark'.kept = mark.kept
                   ELSE /\ bullets'[idx].position = bullets[idx].position
                        /\ alive_bullets' = alive_bullets
                        /\ mark'.kept = mark.kept
                        /\ mark'.hits = mark.hits
                        /\ rocks' = rocks
                        /\ score' = score]_vars
    /\ [][(pc = "bullets" /\ pc' = "rocks") =>
            /\ bullets' = alive_bullets
            /\ mark'.fired = mark.kept
            /\ \A f \in FiredFrames :
                   f = frame - MAX_BULLET_AGE => f \notin Range(mark'.fired)]_vars
    /\ [](Len(mark.fired) = Len(bullets)
          /\ (pc \in {"bullets", "rocks"}
                  => Len(mark.kept) = Len(alive_bullets))
          /\ \A i \in 1..(Len(mark.fired) - 1) :
                 mark.fired[i] < mark.fired[i + 1])
    /\ [](pc \in {"rocks", "keys"} =>
            \A f \in FiredFrames :
                f <= frame /\ frame <= f + MAX_BULLET_AGE - 1)
    /\ \A f \in EarlyFrames :
           (f \in FiredFrames) ~> (f \notin FiredFrames \/ Stopped)
    /\ (Len(bullets) = MAX_BULLETS /\ frame \in EarlyFrames)
           ~> (Len(bullets) < MAX_BULLETS \/ Stopped)

\* C24 witness: the loop over the bullets of a frame is over; the list was
\* full and space is held.  The oldest bullet was fired MAX_BULLET_AGE
\* frames before and has hit no rock: this frame has not moved it and has
\* kept the other bullets only.
C24_Witness ==
    /\ pc = "bullets"
    /\ idx = Len(bullets) + 1
    /\ Len(bullets) = MAX_BULLETS
    /\ key_pressed.space
    /\ mark.fired[1] = frame - MAX_BULLET_AGE
    /\ bullets[1].position = mark.bullets[1].position
    /\ mark.hits = <<>>
    /\ mark.kept = Tail(mark.fired)
    /\ alive_bullets = Tail(bullets)

====
